---- MODULE Spec2Model ----
(***************************************************************************)
(* State-machine model of the WinRT backend's event translation and        *)
(* dispatch runner (winit-winrt/src/event_loop.rs).                        *)
(*                                                                         *)
(* The Runner's fields are the variables; the loop thread's position in    *)
(* run_loop / process_os_events / dispatch_events is pc; every caller of   *)
(* queue_wakeup / request_redraw (the loop thread inside a hook, or any    *)
(* other thread holding a proxy or the window) has its own position wpc.   *)
(* Variables whose comment says "history" record what has happened so far; *)
(* the code does not hold them, and the model reads them only to stop at   *)
(* its bounds (MaxEvents, MaxSignals).                                     *)
(***************************************************************************)
EXTENDS Integers, Sequences, FiniteSets, TLC

\* ------------------------------------------------------------------ bounds

\* Events pushed onto the queue over one run of the run-loop specification.
MaxEvents == 2
\* The clock runs over 0..MaxTime; WaitUntil instants are taken from it.
MaxTime == 1
\* Native key signals (key-down, character-received, key-up) in one run of
\* the keyboard specification.
MaxSignals == 3
\* The process specification makes at most MaxNewCalls EventLoop::new calls.
MaxNewCalls == 3
\* The display specification takes at most MaxDpiSignals DPI-changed signals.
MaxDpiSignals == 2
\* The pointer specification takes at most MaxPointerSignals pointer signals.
MaxPointerSignals == 2
\* The window-operation specification takes at most MaxCalls calls.
MaxCalls == 2

\* ------------------------------------------------------------------ state

VARIABLES
    \* Runner fields
    app,              \* Mutex<Option<AppPtr>>: "none" | "stored"
    control_flow,     \* Mutex<ControlFlow>
    exit,             \* AtomicBool
    events,           \* Mutex<VecDeque<Event>>
    window,           \* a weak reference to the CoreWindow is stored
    dispatcher,       \* a weak reference to the CoreDispatcher is stored
    window_created,   \* AtomicBool latch
    wakeup_pending,   \* AtomicBool
    pending_keydown,  \* Mutex<Option<PendingKeyDown>>
    \* the loop thread
    pc,               \* position of the thread that runs the event loop
    hook,             \* the application hook it is inside ("none" outside)
    start_cause,      \* run_loop's local start_cause
    queue,            \* dispatch_events' local, swapped-out batch
    pumped,           \* the native pump has processed an item in this call
    \* callers of queue_wakeup / request_redraw
    wpc,              \* per caller: "idle" | "push" | "notify"
    \* the native side and the application
    handlers,         \* the window's native handlers are registered
    posted,           \* a RunAsync no-op waits in the dispatcher's queue
    native_exit,      \* CoreApplication::Exit() has been asked for
    has_window,       \* the application holds the Window create_window gave
    released,         \* how many times the application object was dropped
    now,              \* the monotonic clock (Instant::now())
    \* history
    nextId,           \* push sequence number of the next event
    pushed,           \* every event pushed so far, in push order
    delivered,        \* every event handed to window_event / proxy_wake_up
    iterLog,          \* hooks and pump of the current iteration, in order
    passStart,        \* Len(delivered) when the current batch was swapped out
    swapNextId,       \* nextId when the current batch was swapped out
    ccsCalls,         \* invocations of can_create_surfaces
    initCalls,        \* invocations of new_events(StartCause::Init)
    hookWake,         \* id of the last WakeUp queued from inside proxy_wake_up
    itersAfterExit,   \* iterations begun after exit() was first called
    exitHook,         \* the hook in which exit() was first called
    suppressed,       \* a wake_up() was de-duplicated since the last clear
    sigLog,           \* native key signals so far: the signal, the scan code
                      \* of a key-down or key-up, the code of a character
    \* the process
    event_loop_created, \* static EVENT_LOOP_CREATED: AtomicBool
    npc,              \* per caller of EventLoop::new: "idle" | "ok" | "err"
    loop_state,       \* the EventLoop value: "none" | "held" | "run" | "dropped"
    newLog,           \* history: results of the EventLoop::new calls, in order
    \* Runner fields of the display
    display_info,     \* a weak reference to the DisplayInformation is stored
    surface_size,     \* Mutex<PhysicalSize<u32>>
    scale_factor,     \* scale_factor_bits, as the f64 it encodes
    writer_cell,      \* the Arc<Mutex<PhysicalSize>> a SurfaceSizeWriter points to
    \* history of the native display and pointer signals
    lastDpi,          \* the last DPI-changed signal: scale and size before it
    appWrote,         \* what the application asked of the SurfaceSizeWriter
    ptrLog,           \* the pointer signals so far and what each one pushed
    windowsOk,        \* create_window calls that returned Ok
    \* the Runner's mutexes, and each thread's position in the code between
    \* their acquisitions and releases
    frames,           \* per thread: its stack of [op, i], innermost last
    owner,            \* per Runner mutex: the thread that holds it, or "free"
    \* the window and event-loop operations the application has called
    callLog,          \* history: each call's operation, handle state, result
    exit_code,        \* the status std::process::exit was called with
    \* Runner::has_focus and the Window's cursor fields
    has_focus,        \* AtomicBool
    cursor_visible,   \* Window::cursor_visible: AtomicBool
    cursor_icon,      \* Window::cursor_icon: Mutex<CoreCursorType>
    pointer_cursor,   \* CoreWindow's PointerCursor: a cursor type or "None"
    \* the scancode conversions of the crate root
    scancode,         \* the u32 argument of scancode_to_physicalkey
    physical_key,     \* the PhysicalKey argument of physicalkey_to_scancode
    scan_result       \* what physicalkey_to_scancode returned

runnerVars == <<app, control_flow, exit, events, window, dispatcher,
                window_created, wakeup_pending, pending_keydown>>
loopVars == <<pc, hook, start_cause, queue, pumped>>
envVars == <<handlers, posted, native_exit, has_window, released, now>>
histVars == <<nextId, pushed, delivered, iterLog, passStart, swapNextId,
              ccsCalls, initCalls, hookWake, itersAfterExit, exitHook,
              suppressed, sigLog>>
procVars == <<event_loop_created, npc, loop_state, newLog>>
dpiVars == <<display_info, surface_size, scale_factor, writer_cell>>
obsVars == <<lastDpi, appWrote, ptrLog, windowsOk>>
extVars == <<frames, owner, callLog, exit_code>>
winVars == <<has_focus, cursor_visible, cursor_icon, pointer_cursor, scancode,
             physical_key, scan_result>>
moreVars == <<procVars, dpiVars, obsVars, extVars, winVars>>
vars == <<runnerVars, loopVars, wpc, envVars, histVars, moreVars>>

\* ------------------------------------------------------------------ values

\* Threads other than the loop thread that hold a proxy (and, once it has
\* been created, may hold the window).
Threads == {"t1", "t2"}
Main == "main"
Callers == Threads \cup {Main}

Hooks == {"new_events", "can_create_surfaces", "window_event",
          "proxy_wake_up", "about_to_wait"}
DispatchHooks == {"window_event", "proxy_wake_up"}

NoInstant == -1

\* The Runner's mutexes (its Mutex<..> fields).
Locks == {"app", "control_flow", "events", "window", "dispatcher",
          "display_info", "surface_size", "pending_keydown"}
\* No thread is inside any operation, and no mutex is held.
NoFrames == [c \in Callers |-> <<>>]
AllFree == [l \in Locks |-> "free"]
\* std::process::exit has not been called.
NoCode == -1
Instants == 0..MaxTime
Poll == [kind |-> "Poll", instant |-> NoInstant]
Wait == [kind |-> "Wait", instant |-> NoInstant]
WaitUntil(t) == [kind |-> "WaitUntil", instant |-> t]
ControlFlows == {Poll, Wait} \cup {WaitUntil(t) : t \in Instants}
\* The control flows the hooks of the run-loop specification choose from:
\* its clock stands still at 0, so WaitUntil(0) is the one deadline it can
\* tell from the others.
LoopFlows == {Poll, Wait, WaitUntil(0)}

\* Event::WakeUp and Event::Window { window_id: GLOBAL_WINDOW_ID, event }.
\* id is the push sequence number: history carried with the event.
WakeUp(n) == [type |-> "WakeUp", name |-> "WakeUp", id |-> n]
WindowEvent(nm, n) == [type |-> "Window", name |-> nm, id |-> n]

\* StartCause with its requested_resume (NoInstant for None and for the
\* variants without one). The start field, the instant the cause was
\* computed at, is not kept.
StartCause(k, rr) == [kind |-> k, requested_resume |-> rr]
StartCauseInit == StartCause("Init", NoInstant)

\* Window events the native handlers of the run-loop specification raise
\* (the Closed handler).
NativeEventNames == {"CloseRequested"}

\* A scale factor or a DPI value, an f64. Two magnitudes are kept apart: n/d
\* is a fraction in lowest terms (1.0 is 1/1, 1.5 is 3/2, 1.0000001 is
\* 10000001/10000000), and t > 0 (with n = 0) is the positive value
\* t * f64::EPSILON / 2, far below every fraction used. Zero, negative and
\* non-finite values are not among the values the display reports here.
Frac(n, d) == [n |-> n, d |-> d, t |-> 0]
Tiny(k) == [n |-> 0, d |-> 1, t |-> k]
One == Frac(1, 1)

RECURSIVE GCD(_, _)
GCD(a, b) == IF b = 0 THEN a ELSE GCD(b, a % b)
Reduce(n, d) == Frac(n \div GCD(n, d), d \div GCD(n, d))

\* LogicalDpi readings: 96, 144, 96.0000096 (which gives the scale
\* 1.0000001), and three readings of 96 * k * EPSILON / 2; the widening of
\* the f32 reading to f64 is exact.
DpiValues == {Frac(96, 1), Frac(144, 1), Frac(960000096, 10000000),
              Tiny(1), Tiny(2), Tiny(3)}

\* Sizes: PhysicalSize<u32> and the window's logical bounds.
Size(w, h) == [w |-> w, h |-> h]
LogicalSizes == {Size(3, 1), Size(1, 2)}

\* Pixel::from_f64 of the dpi crate for u32: f64::round of p/q, half away
\* from zero.
Round(p, q) == (2 * p + q) \div (2 * q)

\* |a - b| < f64::EPSILON for two values of the kind above.
BelowEpsilon(a, b) ==
    IF a.t > 0 /\ b.t > 0
    THEN (IF a.t >= b.t THEN a.t - b.t ELSE b.t - a.t) < 2
    ELSE a = b

\* LogicalSize::to_physical::<u32>(scale), one dimension.
to_physical(l, scale) ==
    IF scale.t > 0 THEN 0 ELSE Round(l * scale.n, scale.d)

\* PhysicalSize::to_logical::<f64>(old).to_physical::<u32>(new), one
\* dimension: round(w / old * new).
rescale(w, old, new) ==
    CASE w = 0 -> 0
      [] w > 0 /\ old.t = 0 /\ new.t > 0 -> 0
      [] w > 0 /\ old.t > 0 /\ new.t > 0 -> Round(w * new.t, old.t)
      [] w > 0 /\ old.t = 0 /\ new.t = 0 ->
             Round(w * new.n * old.d, new.d * old.n)

\* fn dpi_to_scale_factor: dpi / 96.0.
dpi_to_scale_factor(dpi) ==
    IF dpi.t > 0 THEN dpi ELSE Reduce(dpi.n, dpi.d * 96)

\* The display the run-loop specification starts on: DisplayInformation is
\* available and reports 96 DPI, the window's bounds are 3 x 1.
SetWindowDisplays == {[info |-> TRUE, dpi |-> Frac(96, 1), bounds |-> Size(3, 1)]}

NoCell == [alive |-> FALSE, size |-> Size(0, 0)]
NoDpi == [signals |-> 0]
NoWrite == [some |-> FALSE]

\* ------------------------------------------------------------------ helpers

\* The run-loop specification stops pushing after MaxEvents events; a caller
\* between queue_wakeup's swap and its push has its event reserved.
CanPush == nextId + Cardinality({c \in Callers : wpc[c] = "push"}) <= MaxEvents

\* Runner::queue_event: lock, push_back, unlock.
queue_event(e) ==
    /\ events' = Append(events, e)
    /\ pushed' = Append(pushed, e)
    /\ nextId' = nextId + 1

\* A loop that never recomputes its start cause.
next_start_cause_Stale(cf, t) == StartCauseInit

\* A next_start_cause that reports every deadline as reached.
next_start_cause_Eager(cf, t) ==
    IF cf.kind = "Poll" THEN StartCause("Poll", NoInstant)
    ELSE IF cf.kind = "Wait" THEN StartCause("WaitCancelled", NoInstant)
    ELSE StartCause("ResumeTimeReached", cf.instant)

\* fn next_start_cause(control_flow), with Instant::now() = t.
next_start_cause(cf, t) ==
    IF cf.kind = "Poll" THEN StartCause("Poll", NoInstant)
    ELSE IF cf.kind = "Wait" THEN StartCause("WaitCancelled", NoInstant)
    ELSE IF t >= cf.instant
         THEN StartCause("ResumeTimeReached", cf.instant)
         ELSE StartCause("WaitCancelled", cf.instant)

\* ------------------------------------------------------------------ Init

\* Runner::new(), in the state EventLoop::new leaves: nothing stored, nothing
\* queued, the loop not yet run.
\* No key has been converted yet.
NoKey == [kind |-> "none", native |-> "", code |-> 0]
NoResult == [kind |-> "none", value |-> 0]

\* Runner::new and Window::new leave the window unfocused and the cursor
\* visible with the Arrow icon, which is also the CoreWindow's own pointer
\* cursor until the application sets one; no scancode conversion is running.
WinInit ==
    /\ has_focus = FALSE
    /\ cursor_visible = TRUE
    /\ cursor_icon = "Arrow"
    /\ pointer_cursor = "Arrow"
    /\ scancode = 0
    /\ physical_key = NoKey
    /\ scan_result = NoResult

Init ==
    /\ app = "none"
    /\ control_flow = Wait
    /\ exit = FALSE
    /\ events = <<>>
    /\ window = FALSE
    /\ dispatcher = FALSE
    /\ window_created = FALSE
    /\ wakeup_pending = FALSE
    /\ pending_keydown = [some |-> FALSE]
    /\ pc = "created"
    /\ hook = "none"
    /\ start_cause = StartCauseInit
    /\ queue = <<>>
    /\ pumped = FALSE
    /\ wpc = [c \in Callers |-> "idle"]
    /\ handlers = FALSE
    /\ posted = FALSE
    /\ native_exit = FALSE
    /\ has_window = FALSE
    /\ released = 0
    /\ now = 0
    /\ nextId = 1
    /\ pushed = <<>>
    /\ delivered = <<>>
    /\ iterLog = <<>>
    /\ passStart = 0
    /\ swapNextId = 1
    /\ ccsCalls = 0
    /\ initCalls = 0
    /\ hookWake = 0
    /\ itersAfterExit = 0
    /\ exitHook = "none"
    /\ suppressed = FALSE
    /\ sigLog = <<>>
    /\ event_loop_created = TRUE
    /\ npc = [c \in Callers |-> "idle"]
    /\ loop_state = "held"
    /\ newLog = <<[result |-> "Ok", loop |-> "none"]>>
    /\ display_info = FALSE
    /\ surface_size = Size(0, 0)
    /\ scale_factor = One
    /\ writer_cell = NoCell
    /\ lastDpi = NoDpi
    /\ appWrote = NoWrite
    /\ ptrLog = <<>>
    /\ windowsOk = 0
    /\ frames = NoFrames
    /\ owner = AllFree
    /\ callLog = <<>>
    /\ exit_code = NoCode
    /\ WinInit

\* ------------------------------------------------------------------ start-up

\* EventLoop::run_app_never_return: set_app (which stores the application
\* only into an empty slot), then CoreApplication::Run takes over the thread.
RunApp ==
    /\ pc = "created"
    /\ wpc[Main] = "idle"
    /\ app' = IF app = "none" THEN "stored" ELSE app
    /\ pc' = "native_run"
    /\ loop_state' = "run"
    /\ UNCHANGED <<control_flow, exit, events, window, dispatcher,
                   window_created, wakeup_pending, pending_keydown>>
    /\ UNCHANGED <<hook, start_cause, queue, pumped, wpc, envVars, histVars>>
    /\ UNCHANGED <<event_loop_created, npc, newLog, dpiVars, obsVars,
                   extVars, winVars>>

\* The last statement of run_app_never_return, std::process::exit(status),
\* reached from position `from` once CoreApplication::Run has returned.
process_exit(from, status) ==
    /\ pc = from
    /\ pc' = "exited"
    /\ exit_code' = status
    /\ UNCHANGED <<runnerVars, hook, start_cause, queue, pumped, wpc, envVars,
                   histVars>>
    /\ UNCHANGED <<procVars, dpiVars, obsVars, frames, owner, callLog, winVars>>

\* CoreApplication::Run fails: `let _ =` drops the error and the process
\* exits, the loop never having run.
NativeRunFails == process_exit("native_run", 0)

\* IFrameworkView::SetWindow and Runner::set_window. given: the framework
\* passes a window. The weak references to it and to its dispatcher are
\* stored and the handlers registered on it. (A reference that could not be
\* made behaves as one that never resolves: every resolve of the model may
\* fail.)
SetWindow ==
    /\ pc = "native_run"
    /\ \E given \in BOOLEAN, disp \in SetWindowDisplays :
          /\ window' = given
          /\ dispatcher' = given
          /\ handlers' = given
          /\ IF given
             THEN /\ display_info' = disp.info
                  /\ scale_factor' = IF disp.info
                                     THEN dpi_to_scale_factor(disp.dpi)
                                     ELSE scale_factor
                  /\ surface_size' =
                        Size(to_physical(disp.bounds.w, scale_factor'),
                             to_physical(disp.bounds.h, scale_factor'))
             ELSE UNCHANGED <<display_info, scale_factor, surface_size>>
    /\ pc' = "loaded"
    /\ UNCHANGED <<app, control_flow, exit, events, window_created,
                   wakeup_pending, pending_keydown>>
    /\ UNCHANGED <<hook, start_cause, queue, pumped, wpc>>
    /\ UNCHANGED <<posted, native_exit, has_window, released, now, histVars>>
    /\ UNCHANGED <<procVars, writer_cell, obsVars,
                   extVars, winVars>>

\* IFrameworkView::Run: run_loop begins with start_cause = StartCause::Init.
Run ==
    /\ pc = "loaded"
    /\ start_cause' = StartCauseInit
    /\ pc' = "iter_start"
    /\ UNCHANGED <<runnerVars, hook, queue, pumped, wpc, envVars, histVars>>
    /\ UNCHANGED moreVars

\* ------------------------------------------------------------------ run_loop

\* Top of the loop body: app_ptr is read and new_events(start_cause) invoked.
NewEvents ==
    /\ pc = "iter_start"
    /\ IF app = "stored"
       THEN /\ pc' = "hook"
            /\ hook' = "new_events"
            /\ initCalls' = IF start_cause.kind = "Init"
                            THEN initCalls + 1 ELSE initCalls
            /\ iterLog' = <<"new_events">>
       ELSE /\ pc' = "pump"
            /\ iterLog' = <<>>
            /\ UNCHANGED <<hook, initCalls>>
    /\ itersAfterExit' = IF exit THEN itersAfterExit + 1 ELSE itersAfterExit
    /\ UNCHANGED <<runnerVars, start_cause, queue, pumped, wpc, envVars>>
    /\ UNCHANGED <<nextId, pushed, delivered, passStart, swapNextId, ccsCalls,
                   hookWake, exitHook, suppressed, sigLog>>
    /\ UNCHANGED moreVars

\* A hook returns to the loop. After new_events of the first iteration
\* can_create_surfaces is invoked at once; otherwise the loop goes on to the
\* step that follows the hook.
HookReturn ==
    /\ pc = "hook"
    /\ wpc[Main] = "idle"
    /\ IF hook = "new_events" /\ start_cause.kind = "Init"
       THEN /\ hook' = "can_create_surfaces"
            /\ pc' = "hook"
            /\ ccsCalls' = ccsCalls + 1
            /\ iterLog' = Append(iterLog, "can_create_surfaces")
       ELSE /\ hook' = "none"
            /\ pc' = IF hook \in {"new_events", "can_create_surfaces"}
                     THEN "pump"
                     ELSE IF hook \in DispatchHooks THEN "dispatch"
                     ELSE "check_exit"
            /\ UNCHANGED <<ccsCalls, iterLog>>
    /\ UNCHANGED <<runnerVars, start_cause, queue, pumped, wpc, envVars>>
    /\ UNCHANGED <<nextId, pushed, delivered, passStart, swapNextId, initCalls,
                   hookWake, itersAfterExit, exitHook, suppressed, sigLog>>
    /\ UNCHANGED moreVars

\* about_to_wait is invoked with the app_ptr read at the top of the iteration.
AboutToWait ==
    /\ pc = "atw"
    /\ IF app = "stored"
       THEN /\ pc' = "hook"
            /\ hook' = "about_to_wait"
            /\ iterLog' = Append(iterLog, "about_to_wait")
       ELSE /\ pc' = "check_exit"
            /\ UNCHANGED <<hook, iterLog>>
    /\ UNCHANGED <<runnerVars, start_cause, queue, pumped, wpc, envVars>>
    /\ UNCHANGED <<nextId, pushed, delivered, passStart, swapNextId, ccsCalls,
                   initCalls, hookWake, itersAfterExit, exitHook, suppressed,
                   sigLog>>
    /\ UNCHANGED moreVars

\* A loop that does not look at the exit flag.
CheckExit_Ignores ==
    /\ pc = "check_exit"
    /\ pc' = "iter_start"
    /\ start_cause' = next_start_cause(control_flow, now)
    /\ UNCHANGED <<runnerVars, hook, queue, pumped, wpc, envVars, histVars>>
    /\ UNCHANGED moreVars

\* A loop that consumes the exit flag (swap(false)) when it breaks.
CheckExit_Consumes ==
    /\ pc = "check_exit"
    /\ exit' = FALSE
    /\ IF exit
       THEN pc' = "break" /\ UNCHANGED start_cause
       ELSE pc' = "iter_start"
            /\ start_cause' = next_start_cause(control_flow, now)
    /\ UNCHANGED <<app, control_flow, events, window, dispatcher,
                   window_created, wakeup_pending, pending_keydown>>
    /\ UNCHANGED <<hook, queue, pumped, wpc, envVars, histVars>>
    /\ UNCHANGED moreVars

\* A loop that reads the exit flag before dispatch_events and tests that
\* reading at the bottom: an exit() made in a dispatch hook or in
\* about_to_wait is seen one iteration later.
CheckExit_ReadEarly ==
    /\ pc = "check_exit"
    /\ IF exit /\ (itersAfterExit >= 1
                     \/ exitHook \in {"before_run", "new_events",
                                      "can_create_surfaces"})
       THEN pc' = "break" /\ UNCHANGED start_cause
       ELSE pc' = "iter_start"
            /\ start_cause' = next_start_cause(control_flow, now)
    /\ UNCHANGED <<runnerVars, hook, queue, pumped, wpc, envVars, histVars>>
    /\ UNCHANGED moreVars

\* The bottom of the loop body: break when the exit flag is set, otherwise
\* compute the next start cause from control_flow and the clock.
CheckExit ==
    /\ pc = "check_exit"
    /\ IF exit
       THEN pc' = "break" /\ UNCHANGED start_cause
       ELSE pc' = "iter_start"
            /\ start_cause' = next_start_cause(control_flow, now)
    /\ UNCHANGED <<runnerVars, hook, queue, pumped, wpc, envVars, histVars>>
    /\ UNCHANGED moreVars

\* After the loop: take_app, and the box it held is dropped. takes: the
\* slot is emptied (take()); drops: the box is rebuilt and dropped; calls:
\* a hook is invoked through the pointer afterwards.
take_app(takes, drops, calls) ==
    /\ pc = "break"
    /\ IF app = "stored"
       THEN /\ app' = IF takes THEN "none" ELSE app
            /\ released' = IF drops THEN released + 1 ELSE released
       ELSE UNCHANGED <<app, released>>
    /\ IF calls /\ app = "stored"
       THEN pc' = "hook" /\ hook' = "about_to_wait"
       ELSE pc' = "done" /\ hook' = hook
    /\ UNCHANGED <<control_flow, exit, events, window, dispatcher,
                   window_created, wakeup_pending, pending_keydown>>
    /\ UNCHANGED <<start_cause, queue, pumped, wpc>>
    /\ UNCHANGED <<handlers, posted, native_exit, has_window, now, histVars>>
    /\ UNCHANGED moreVars

\* A loop that forgets the pointer it took back.
TakeApp_Leaks == take_app(TRUE, FALSE, FALSE)

\* A loop that invokes a last about_to_wait through the pointer it has
\* already released.
TakeApp_ThenCalls == take_app(TRUE, TRUE, TRUE)

\* The end of run_loop as written.
TakeApp == take_app(TRUE, TRUE, FALSE)

\* An exit that reports a failure status once the loop has terminated.
ProcessExit_Failure == process_exit("done", 1)

\* run_loop has returned, IFrameworkView::Run gives Ok(()) and
\* CoreApplication::Run returns: the process exits with status 0.
ProcessExit == process_exit("done", 0)

\* ------------------------------------------------------------------ process_os_events

\* Entry of process_os_events: the dispatcher is resolved (ok: the resolve
\* succeeds); without one the function returns at once. Under WaitUntil(t)
\* with t in the future the thread sleeps, for at least t - now.
ProcessOsEvents ==
    /\ pc = "pump"
    /\ iterLog' = Append(iterLog, "pump")
    /\ \E ok \in BOOLEAN :
          IF ~(dispatcher /\ ok)
          THEN /\ pc' = "swap"
               /\ UNCHANGED <<pumped, now>>
          ELSE /\ pc' = "pumping"
               /\ pumped' = FALSE
               /\ IF control_flow.kind = "WaitUntil" /\ now < control_flow.instant
                  THEN \E woke \in Instants :
                          woke >= control_flow.instant /\ now' = woke
                  ELSE UNCHANGED now
    /\ UNCHANGED <<runnerVars, hook, start_cause, queue, wpc>>
    /\ UNCHANGED <<handlers, posted, native_exit, has_window, released>>
    /\ UNCHANGED <<nextId, pushed, delivered, passStart, swapNextId, ccsCalls,
                   initCalls, hookWake, itersAfterExit, exitHook, suppressed,
                   sigLog>>
    /\ UNCHANGED moreVars

\* Inside ProcessEvents a native signal is delivered to its registered
\* handler, which queues one window event (the Closed handler).
NativeCallback ==
    /\ pc = "pumping"
    /\ handlers
    /\ CanPush
    /\ \E nm \in NativeEventNames : queue_event(WindowEvent(nm, nextId))
    /\ pumped' = TRUE
    /\ UNCHANGED <<app, control_flow, exit, window, dispatcher, window_created,
                   wakeup_pending, pending_keydown>>
    /\ UNCHANGED <<pc, hook, start_cause, queue, wpc, envVars>>
    /\ UNCHANGED <<delivered, iterLog, passStart, swapNextId, ccsCalls,
                   initCalls, hookWake, itersAfterExit, exitHook, suppressed,
                   sigLog>>
    /\ UNCHANGED moreVars

\* Inside ProcessEvents the no-op that Runner::wake_up posted with RunAsync
\* is run.
PumpPosted ==
    /\ pc = "pumping"
    /\ posted
    /\ posted' = FALSE
    /\ pumped' = TRUE
    /\ UNCHANGED <<runnerVars, pc, hook, start_cause, queue, wpc>>
    /\ UNCHANGED <<handlers, native_exit, has_window, released, now, histVars>>
    /\ UNCHANGED moreVars

\* ProcessEvents returns: nothing is left to process and, under Wait
\* (ProcessOneAndAllPending), at least one item has been processed.
PumpReturn ==
    /\ pc = "pumping"
    /\ ~posted
    /\ control_flow.kind = "Wait" => pumped
    /\ pc' = "swap"
    /\ UNCHANGED <<runnerVars, hook, start_cause, queue, pumped, wpc, envVars,
                   histVars>>
    /\ UNCHANGED moreVars

\* ------------------------------------------------------------------ dispatch_events

\* A dispatch_events that copies the queue and clears it afterwards, not in
\* one critical section: what was pushed in between is cleared unseen.
SwapQueue_CopyThenClear ==
    /\ pc = "swap"
    /\ events' = <<>>
    /\ \E k \in 0..Len(events) : queue' = SubSeq(events, 1, k)
    /\ pc' = "dispatch"
    /\ passStart' = Len(delivered)
    /\ swapNextId' = nextId
    /\ UNCHANGED <<app, control_flow, exit, window, dispatcher, window_created,
                   wakeup_pending, pending_keydown>>
    /\ UNCHANGED <<hook, start_cause, pumped, wpc, envVars>>
    /\ UNCHANGED <<nextId, pushed, delivered, iterLog, ccsCalls, initCalls,
                   hookWake, itersAfterExit, exitHook, suppressed, sigLog>>
    /\ UNCHANGED moreVars

\* The queue is swapped with an empty one under the lock; with no
\* application stored the function returns and the batch is dropped.
SwapQueue ==
    /\ pc = "swap"
    /\ events' = <<>>
    /\ queue' = IF app = "stored" THEN events ELSE <<>>
    /\ pc' = IF app = "stored" THEN "dispatch" ELSE "atw"
    /\ passStart' = Len(delivered)
    /\ swapNextId' = nextId
    /\ UNCHANGED <<app, control_flow, exit, window, dispatcher, window_created,
                   wakeup_pending, pending_keydown>>
    /\ UNCHANGED <<hook, start_cause, pumped, wpc, envVars>>
    /\ UNCHANGED <<nextId, pushed, delivered, iterLog, ccsCalls, initCalls,
                   hookWake, itersAfterExit, exitHook, suppressed, sigLog>>
    /\ UNCHANGED moreVars

\* One turn of `for event in queue` with e the event taken and rest what is
\* left of the batch: a WakeUp clears wakeup_pending (when clear) and
\* proxy_wake_up is invoked, any other event goes to window_event.
Dispatch(e, rest, clear) ==
    /\ pc = "dispatch"
    /\ queue # <<>>
    /\ queue' = rest
    /\ delivered' = Append(delivered, e)
    /\ pc' = "hook"
    /\ IF e.type = "WakeUp"
       THEN /\ wakeup_pending' = IF clear THEN FALSE ELSE wakeup_pending
            /\ suppressed' = FALSE
            /\ hook' = "proxy_wake_up"
       ELSE /\ hook' = "window_event"
            /\ UNCHANGED <<wakeup_pending, suppressed>>
    /\ iterLog' = Append(iterLog, hook')
    /\ UNCHANGED <<app, control_flow, exit, events, window, dispatcher,
                   window_created, pending_keydown>>
    /\ UNCHANGED <<start_cause, pumped, wpc, envVars>>
    /\ UNCHANGED <<nextId, pushed, passStart, swapNextId, ccsCalls, initCalls,
                   hookWake, itersAfterExit, exitHook, sigLog>>
    /\ UNCHANGED moreVars

\* A dispatch loop that takes the batch from its back.
DispatchOne_FromBack ==
    Dispatch(queue[Len(queue)], SubSeq(queue, 1, Len(queue) - 1), TRUE)

\* A dispatch loop that leaves wakeup_pending set when it hands a WakeUp to
\* proxy_wake_up.
DispatchOne_NoClear == Dispatch(Head(queue), Tail(queue), FALSE)

\* The loop as written: front to back, the flag cleared before the hook.
DispatchOne == Dispatch(Head(queue), Tail(queue), TRUE)

\* dispatch_events that, its batch exhausted, swaps the queue again and goes
\* on while anything is queued.
DispatchDone_Refill ==
    /\ pc = "dispatch"
    /\ queue = <<>>
    /\ IF events # <<>>
       THEN queue' = events /\ events' = <<>> /\ pc' = "dispatch"
       ELSE pc' = "atw" /\ UNCHANGED <<events, queue>>
    /\ UNCHANGED <<app, control_flow, exit, window, dispatcher, window_created,
                   wakeup_pending, pending_keydown>>
    /\ UNCHANGED <<hook, start_cause, pumped, wpc, envVars, histVars>>
    /\ UNCHANGED moreVars

\* dispatch_events that may return before its batch is exhausted.
DispatchDone_Early ==
    /\ pc = "dispatch"
    /\ pc' = "atw"
    /\ UNCHANGED <<runnerVars, hook, start_cause, queue, pumped, wpc, envVars,
                   histVars>>
    /\ UNCHANGED moreVars

\* dispatch_events that stops handing out its batch once exit() was called.
DispatchDone_OnExit ==
    /\ pc = "dispatch"
    /\ queue = <<>> \/ exit
    /\ pc' = "atw"
    /\ UNCHANGED <<runnerVars, hook, start_cause, queue, pumped, wpc, envVars,
                   histVars>>
    /\ UNCHANGED moreVars

\* The batch is exhausted: dispatch_events returns.
DispatchDone ==
    /\ pc = "dispatch"
    /\ queue = <<>>
    /\ pc' = "atw"
    /\ UNCHANGED <<runnerVars, hook, start_cause, queue, pumped, wpc, envVars,
                   histVars>>
    /\ UNCHANGED moreVars

\* ------------------------------------------------------------------ calls of the application

\* The loop thread calls into the ActiveEventLoop and the Window from inside
\* a hook, one call after the other.
MainCanCall == pc = "hook" /\ wpc[Main] = "idle"

CallerCanCall(c) ==
    /\ wpc[c] = "idle"
    /\ IF c = Main THEN MainCanCall ELSE pc # "exited"

\* ActiveEventLoop::exit: the flag is stored, CoreApplication::Exit asked for.
\* The application reaches it inside a hook, and before the loop runs
\* through EventLoop::window_target.
Exit ==
    /\ MainCanCall \/ (pc = "created" /\ wpc[Main] = "idle")
    /\ exit' = TRUE
    /\ native_exit' = TRUE
    /\ exitHook' = IF exitHook # "none" THEN exitHook
                   ELSE IF pc = "created" THEN "before_run" ELSE hook
    /\ UNCHANGED <<app, control_flow, events, window, dispatcher,
                   window_created, wakeup_pending, pending_keydown>>
    /\ UNCHANGED <<loopVars, wpc, handlers, posted, has_window, released, now>>
    /\ UNCHANGED <<nextId, pushed, delivered, iterLog, passStart, swapNextId,
                   ccsCalls, initCalls, hookWake, itersAfterExit, suppressed,
                   sigLog>>
    /\ UNCHANGED moreVars

\* ActiveEventLoop::set_control_flow(cf).
SetControlFlow(cf) ==
    /\ MainCanCall
    /\ control_flow' = cf
    /\ UNCHANGED <<app, exit, events, window, dispatcher, window_created,
                   wakeup_pending, pending_keydown>>
    /\ UNCHANGED <<loopVars, wpc, envVars, histVars>>
    /\ UNCHANGED moreVars

\* The application can reach create_window inside a hook, and before the loop
\* runs through EventLoop::window_target.
CanCreateWindow == MainCanCall \/ (pc = "created" /\ wpc[Main] = "idle")

\* ActiveEventLoop::create_window, Window::new. latched: the call gives up
\* when the swap on window_created returns true. sets: the swap leaves the
\* latch set whatever the outcome of the call. Past the latch the CoreWindow
\* must resolve (ok) for the window to be made.
window_new(latched, sets) ==
    /\ CanCreateWindow
    /\ \E ok \in BOOLEAN :
          LET made == (latched => ~window_created) /\ window /\ ok
          IN /\ window_created' = (window_created \/ sets \/ made)
             /\ has_window' = (has_window \/ made)
             /\ windowsOk' = IF made THEN windowsOk + 1 ELSE windowsOk
    /\ UNCHANGED <<app, control_flow, exit, events, window, dispatcher,
                   wakeup_pending, pending_keydown>>
    /\ UNCHANGED <<loopVars, wpc, handlers, posted, native_exit, released, now,
                   histVars>>
    /\ UNCHANGED <<procVars, dpiVars, lastDpi, appWrote, ptrLog,
                   extVars, winVars>>

\* A Window::new that does not look at the latch.
CreateWindow_NoLatch == window_new(FALSE, TRUE)

\* Window::new as written: the latch is swapped to true first.
CreateWindow == window_new(TRUE, TRUE)

\* Window::request_redraw, first half: queue_window_event(RedrawRequested).
\* Runner::wake_up follows as the caller's next step.
RequestRedraw(c) ==
    /\ has_window
    /\ CallerCanCall(c)
    /\ CanPush
    /\ queue_event(WindowEvent("RedrawRequested", nextId))
    /\ wpc' = [wpc EXCEPT ![c] = "notify"]
    /\ UNCHANGED <<app, control_flow, exit, window, dispatcher, window_created,
                   wakeup_pending, pending_keydown>>
    /\ UNCHANGED <<loopVars, envVars>>
    /\ UNCHANGED <<delivered, iterLog, passStart, swapNextId, ccsCalls,
                   initCalls, hookWake, itersAfterExit, exitHook, suppressed,
                   sigLog>>
    /\ UNCHANGED moreVars

\* queue_wakeup that sets the flag without looking at what it held.
QueueWakeupSwap_NoDedup(c) ==
    /\ CallerCanCall(c)
    /\ CanPush
    /\ wakeup_pending' = TRUE
    /\ wpc' = [wpc EXCEPT ![c] = "push"]
    /\ UNCHANGED <<app, control_flow, exit, events, window, dispatcher,
                   window_created, pending_keydown>>
    /\ UNCHANGED <<loopVars, envVars, histVars>>
    /\ UNCHANGED moreVars

\* EventLoopProxy::wake_up, Runner::queue_wakeup, first statement:
\* wakeup_pending.swap(true). A caller that reads true returns.
QueueWakeupSwap(c) ==
    /\ CallerCanCall(c)
    /\ wakeup_pending \/ CanPush
    /\ wakeup_pending' = TRUE
    /\ IF wakeup_pending
       THEN suppressed' = TRUE /\ UNCHANGED wpc
       ELSE wpc' = [wpc EXCEPT ![c] = "push"] /\ UNCHANGED suppressed
    /\ UNCHANGED <<app, control_flow, exit, events, window, dispatcher,
                   window_created, pending_keydown>>
    /\ UNCHANGED <<loopVars, envVars>>
    /\ UNCHANGED <<nextId, pushed, delivered, iterLog, passStart, swapNextId,
                   ccsCalls, initCalls, hookWake, itersAfterExit, exitHook,
                   sigLog>>
    /\ UNCHANGED moreVars

\* Runner::queue_wakeup, second statement: queue_event(Event::WakeUp).
QueueWakeupPush(c) ==
    /\ wpc[c] = "push"
    /\ queue_event(WakeUp(nextId))
    /\ wpc' = [wpc EXCEPT ![c] = "notify"]
    /\ hookWake' = IF c = Main /\ hook = "proxy_wake_up" THEN nextId ELSE hookWake
    /\ UNCHANGED <<app, control_flow, exit, window, dispatcher, window_created,
                   wakeup_pending, pending_keydown>>
    /\ UNCHANGED <<loopVars, envVars>>
    /\ UNCHANGED <<delivered, iterLog, passStart, swapNextId, ccsCalls,
                   initCalls, itersAfterExit, exitHook, suppressed, sigLog>>
    /\ UNCHANGED moreVars

\* Runner::wake_up: when the dispatcher resolves (ok), a no-op is posted to
\* it with RunAsync.
WakeUpNotify(c) ==
    /\ wpc[c] = "notify"
    /\ \E ok \in BOOLEAN : posted' = (posted \/ (dispatcher /\ ok))
    /\ wpc' = [wpc EXCEPT ![c] = "idle"]
    /\ UNCHANGED <<runnerVars, loopVars, handlers, native_exit, has_window,
                   released, now, histVars>>
    /\ UNCHANGED moreVars

\* Time passes.
Tick ==
    /\ pc # "exited"
    /\ now < MaxTime
    /\ now' = now + 1
    /\ UNCHANGED <<runnerVars, loopVars, wpc, handlers, posted, native_exit,
                   has_window, released, histVars>>
    /\ UNCHANGED moreVars

\* ------------------------------------------------------------------ the run-loop specification

Next ==
    \/ RunApp \/ NativeRunFails \/ SetWindow \/ Run
    \/ NewEvents \/ HookReturn \/ AboutToWait \/ CheckExit \/ TakeApp
    \/ ProcessExit
    \/ ProcessOsEvents \/ NativeCallback \/ PumpPosted \/ PumpReturn
    \/ SwapQueue \/ DispatchOne \/ DispatchDone
    \/ Exit \/ CreateWindow
    \/ \E cf \in LoopFlows : SetControlFlow(cf)
    \/ \E c \in Callers :
          \/ RequestRedraw(c)
          \/ QueueWakeupSwap(c)
          \/ QueueWakeupPush(c)
          \/ WakeUpNotify(c)

Spec == Init /\ [][Next]_vars

\* ------------------------------------------------------------------ keyboard values

None == [some |-> FALSE, str |-> ""]
Some(x) == [some |-> TRUE, str |-> x]

\* The keys of the keyboard specification: a virtual key and the scan code
\* the hardware reports for it.
Keys == {[vk |-> "A", sc |-> 30], [vk |-> "B", sc |-> 48],
         [vk |-> "Enter", sc |-> 28]}
\* The modifier states current_modifiers reads off the window.
ModSets == {{}, {"SHIFT"}, {"CONTROL"}}
\* CharacterReceivedEventArgs::KeyCode values: the code points of "a", "A",
\* and a lone surrogate, which char::from_u32 rejects.
KeyCodes == {"a", "A", "surrogate"}

\* std::char::from_u32.
from_u32(code) == IF code = "surrogate" THEN None ELSE Some(code)

\* fn map_virtual_key_named.
map_virtual_key_named(vk) == IF vk = "Enter" THEN Some("Enter") ELSE None

\* fn map_virtual_key_char.
map_virtual_key_char(vk, shift) ==
    IF vk = "A" THEN Some(IF shift THEN "A" ELSE "a")
    ELSE IF vk = "B" THEN Some(IF shift THEN "B" ELSE "b")
    ELSE None

\* winit_core's Key::to_text for a named key: Enter gives "\r".
to_text(named) == IF named = "Enter" THEN Some("\r") ELSE None

\* fn map_key: the logical key and its text.
map_key(vk, mods) ==
    IF map_virtual_key_named(vk).some
    THEN [key |-> [kind |-> "Named", str |-> map_virtual_key_named(vk).str],
          text |-> to_text(map_virtual_key_named(vk).str)]
    ELSE IF map_virtual_key_char(vk, "SHIFT" \in mods).some
    THEN [key |-> [kind |-> "Character",
                   str |-> map_virtual_key_char(vk, "SHIFT" \in mods).str],
          text |-> Some(map_virtual_key_char(vk, "SHIFT" \in mods).str)]
    ELSE [key |-> [kind |-> "Unidentified", str |-> vk], text |-> None]

\* The KeyEvent handle_key builds before it looks at the element state.
KeyEvent(k, mods, state, repeat) ==
    [physical_key |-> k.sc,
     logical_key |-> map_key(k.vk, mods).key,
     text |-> map_key(k.vk, mods).text,
     location |-> "Standard",
     state |-> state,
     repeat |-> repeat,
     text_with_all_modifiers |-> map_key(k.vk, mods).text,
     key_without_modifiers |-> map_key(k.vk, {}).key]

\* WindowEvent::ModifiersChanged and WindowEvent::KeyboardInput, as queued.
ModifiersChanged(mods, n) ==
    [type |-> "Window", name |-> "ModifiersChanged", id |-> n, mods |-> mods]
KeyboardInput(ev, n) ==
    [type |-> "Window", name |-> "KeyboardInput", id |-> n, event |-> ev,
     is_synthetic |-> FALSE]

NoPending == [some |-> FALSE]
PendingKeyDown(sc, ev) == [some |-> TRUE, scancode |-> sc, event |-> ev]

\* Several queue_window_event calls of one handler: es are the events in
\* push order, without their ids.
queue_window_events(es) ==
    LET stamped == [i \in 1..Len(es) |->
                       [es[i] EXCEPT !.id = nextId + i - 1]]
    IN /\ events' = events \o stamped
       /\ pushed' = pushed \o stamped
       /\ nextId' = nextId + Len(es)

\* ------------------------------------------------------------------ keyboard handlers

\* The native signals reach their handlers while the loop thread pumps.
KeySignalAllowed == pc = "pumping" /\ handlers /\ Len(sigLog) < MaxSignals

\* The modifiers that keep a character key-down out of the buffer.
TextBlockers == {"CONTROL", "ALT", "META"}

\* Runner::handle_key(args, ElementState::Pressed). flushes: a press still
\* buffered is enqueued, not dropped, when the buffer is taken. blockers: the
\* modifiers whose presence makes expect_text false.
handle_key_pressed(k, mods, repeat, flushes, blockers) ==
    LET event == KeyEvent(k, mods, "Pressed", repeat)
        expect_text == /\ event.logical_key.kind = "Character"
                       /\ mods \cap blockers = {}
        flush == IF pending_keydown.some /\ flushes
                 THEN <<KeyboardInput(pending_keydown.event, 0)>>
                 ELSE <<>>
    IN /\ KeySignalAllowed
       /\ sigLog' = Append(sigLog, [sig |-> "down", sc |-> k.sc, code |-> ""])
       /\ IF expect_text
          THEN /\ pending_keydown' = PendingKeyDown(k.sc, event)
               /\ queue_window_events(<<ModifiersChanged(mods, 0)>> \o flush)
          ELSE /\ pending_keydown' = NoPending
               /\ queue_window_events(<<ModifiersChanged(mods, 0)>> \o flush
                                        \o <<KeyboardInput(event, 0)>>)
       /\ pumped' = TRUE
       /\ UNCHANGED <<app, control_flow, exit, window, dispatcher,
                      window_created, wakeup_pending>>
       /\ UNCHANGED <<pc, hook, start_cause, queue, wpc, envVars>>
       /\ UNCHANGED <<delivered, iterLog, passStart, swapNextId, ccsCalls,
                      initCalls, hookWake, itersAfterExit, exitHook,
                      suppressed>>
       /\ UNCHANGED moreVars

\* A key-down handler that overwrites the buffer without flushing it.
KeyDown_DropsPending(k, mods, repeat) ==
    handle_key_pressed(k, mods, repeat, FALSE, TextBlockers)

\* A key-down handler that buffers a character key while alt or meta is held.
KeyDown_ControlOnly(k, mods, repeat) ==
    handle_key_pressed(k, mods, repeat, TRUE, {"CONTROL"})

\* The key-down handler as written.
KeyDown(k, mods, repeat) ==
    handle_key_pressed(k, mods, repeat, TRUE, TextBlockers)

\* Runner::handle_key(args, ElementState::Released). compares: the buffered
\* press is flushed only when its scan code is the released one. first: the
\* flushed press is enqueued before the release.
handle_key_released(k, mods, repeat, compares, first) ==
    LET built == KeyEvent(k, mods, "Released", repeat)
        event == [built EXCEPT !.repeat = FALSE, !.text = None,
                               !.text_with_all_modifiers = None]
        matches == /\ pending_keydown.some
                   /\ compares => pending_keydown.scancode = k.sc
        flush == IF matches
                 THEN <<KeyboardInput(pending_keydown.event, 0)>>
                 ELSE <<>>
    IN /\ KeySignalAllowed
       /\ sigLog' = Append(sigLog, [sig |-> "up", sc |-> k.sc, code |-> ""])
       /\ pending_keydown' = IF matches THEN NoPending ELSE pending_keydown
       /\ queue_window_events(
             IF first
             THEN <<ModifiersChanged(mods, 0)>> \o flush
                     \o <<KeyboardInput(event, 0)>>
             ELSE <<ModifiersChanged(mods, 0), KeyboardInput(event, 0)>>
                     \o flush)
       /\ pumped' = TRUE
       /\ UNCHANGED <<app, control_flow, exit, window, dispatcher,
                      window_created, wakeup_pending>>
       /\ UNCHANGED <<pc, hook, start_cause, queue, wpc, envVars>>
       /\ UNCHANGED <<delivered, iterLog, passStart, swapNextId, ccsCalls,
                      initCalls, hookWake, itersAfterExit, exitHook,
                      suppressed>>
       /\ UNCHANGED moreVars

\* A key-up handler that flushes whatever press is buffered.
KeyUp_FlushesAny(k, mods, repeat) ==
    handle_key_released(k, mods, repeat, FALSE, TRUE)

\* A key-up handler that enqueues the release before the press it flushes.
KeyUp_ReleaseFirst(k, mods, repeat) ==
    handle_key_released(k, mods, repeat, TRUE, FALSE)

\* The key-up handler as written.
KeyUp(k, mods, repeat) == handle_key_released(k, mods, repeat, TRUE, TRUE)

\* The key-down signals so far, by their place in the log, and the latest:
\* the one that buffered the press in the buffer, if one is buffered.
KeyDowns == {i \in 1..Len(sigLog) : sigLog[i].sig = "down"}
LastKeyDown == CHOOSE i \in KeyDowns : \A j \in KeyDowns : j <= i

\* Runner::handle_character_received for a signal carrying code. The signal
\* was produced by the key press of the key-down signal number press (0: by
\* no key-down, as injected text is); the handler does not read
\* CharacterReceivedEventArgs::KeyStatus, which tells. The log keeps press
\* and, as merged, the key-down whose buffered press took the character.
\* takes: the buffer is emptied by the take(); keeps: key_without_modifiers
\* of the buffered event is left as key-down computed it.
handle_character_received(code, takes, keeps) ==
    LET ch == from_u32(code)
        text == [pending_keydown.event EXCEPT
                    !.logical_key = [kind |-> "Character", str |-> ch.str],
                    !.text = Some(ch.str),
                    !.text_with_all_modifiers = Some(ch.str)]
        merged == IF keeps THEN text
                  ELSE [text EXCEPT !.key_without_modifiers =
                                       [kind |-> "Character", str |-> ch.str]]
    IN /\ KeySignalAllowed
       /\ \E press \in KeyDowns \cup {0} :
             sigLog' = Append(sigLog,
                 [sig |-> "char", sc |-> 0, code |-> code, press |-> press,
                  merged |-> IF ch.some /\ pending_keydown.some
                             THEN LastKeyDown ELSE 0])
       /\ IF ch.some /\ pending_keydown.some
          THEN /\ pending_keydown' = IF takes THEN NoPending
                                     ELSE pending_keydown
               /\ queue_window_events(<<KeyboardInput(merged, 0)>>)
          ELSE UNCHANGED <<pending_keydown, events, pushed, nextId>>
       /\ pumped' = TRUE
       /\ UNCHANGED <<app, control_flow, exit, window, dispatcher,
                      window_created, wakeup_pending>>
       /\ UNCHANGED <<pc, hook, start_cause, queue, wpc, envVars>>
       /\ UNCHANGED <<delivered, iterLog, passStart, swapNextId, ccsCalls,
                      initCalls, hookWake, itersAfterExit, exitHook,
                      suppressed>>
       /\ UNCHANGED moreVars

\* A handler that reads the buffered key-down without taking it.
CharacterReceived_KeepsPending(code) ==
    handle_character_received(code, FALSE, TRUE)

\* A handler that writes the character into key_without_modifiers as well.
CharacterReceived_OverwritesAll(code) ==
    handle_character_received(code, TRUE, FALSE)

\* The handler as written.
CharacterReceived(code) == handle_character_received(code, TRUE, TRUE)

\* ------------------------------------------------------------------ the keyboard specification

\* The state of the run-loop specification in which the first iteration has
\* called new_events and can_create_surfaces and the loop thread has entered
\* the native pump with the window's handlers registered. The coalescer's
\* state lives in pending_keydown and the queue, which the dispatch of a
\* batch does not read, so the signals are all taken in this one pump.
KeyInit ==
    /\ app = "stored"
    /\ control_flow = Wait
    /\ exit = FALSE
    /\ events = <<>>
    /\ window = TRUE
    /\ dispatcher = TRUE
    /\ window_created = FALSE
    /\ wakeup_pending = FALSE
    /\ pending_keydown = NoPending
    /\ pc = "pumping"
    /\ hook = "none"
    /\ start_cause = StartCauseInit
    /\ queue = <<>>
    /\ pumped = FALSE
    /\ wpc = [c \in Callers |-> "idle"]
    /\ handlers = TRUE
    /\ posted = FALSE
    /\ native_exit = FALSE
    /\ has_window = FALSE
    /\ released = 0
    /\ now = 0
    /\ nextId = 1
    /\ pushed = <<>>
    /\ delivered = <<>>
    /\ iterLog = <<"new_events", "can_create_surfaces", "pump">>
    /\ passStart = 0
    /\ swapNextId = 1
    /\ ccsCalls = 1
    /\ initCalls = 1
    /\ hookWake = 0
    /\ itersAfterExit = 0
    /\ exitHook = "none"
    /\ suppressed = FALSE
    /\ sigLog = <<>>
    /\ event_loop_created = TRUE
    /\ npc = [c \in Callers |-> "idle"]
    /\ loop_state = "run"
    /\ newLog = <<[result |-> "Ok", loop |-> "none"]>>
    /\ display_info = TRUE
    /\ surface_size = Size(3, 1)
    /\ scale_factor = One
    /\ writer_cell = NoCell
    /\ lastDpi = NoDpi
    /\ appWrote = NoWrite
    /\ ptrLog = <<>>
    /\ windowsOk = 0
    /\ frames = NoFrames
    /\ owner = AllFree
    /\ callLog = <<>>
    /\ exit_code = NoCode
    /\ WinInit

KeyNext ==
    \/ \E k \in Keys, mods \in ModSets, repeat \in BOOLEAN :
          \/ KeyDown(k, mods, repeat)
          \/ KeyUp(k, mods, repeat)
    \/ \E code \in KeyCodes : CharacterReceived(code)

KeySpec == KeyInit /\ [][KeyNext]_vars

\* ------------------------------------------------------------------ the modifier specification

\* The number of native signals of the modifier specification.
MaxModSignals == 2

\* Every state current_modifiers can build from the four keys it polls.
AllModSets == SUBSET {"SHIFT", "CONTROL", "ALT", "META"}

\* A character key, a named key and a key neither mapping table knows.
ModKeys == {[vk |-> "A", sc |-> 30], [vk |-> "Enter", sc |-> 28],
            [vk |-> "Shift", sc |-> 42]}

\* Key-downs under every modifier state, with the character signals that
\* take the buffer.
ModNext ==
    /\ Len(sigLog) < MaxModSignals
    /\ \/ \E k \in ModKeys, mods \in AllModSets : KeyDown(k, mods, FALSE)
       \/ \E code \in {"a", "surrogate"} : CharacterReceived(code)

ModSpec == KeyInit /\ [][ModNext]_vars


\* ------------------------------------------------------------------ the process specification

\* The process before any EventLoop::new call: the static flag is false and
\* no Runner exists yet (its fields are shown as Runner::new will make them).
ProcInit ==
    /\ app = "none"
    /\ control_flow = Wait
    /\ exit = FALSE
    /\ events = <<>>
    /\ window = FALSE
    /\ dispatcher = FALSE
    /\ window_created = FALSE
    /\ wakeup_pending = FALSE
    /\ pending_keydown = NoPending
    /\ pc = "start"
    /\ hook = "none"
    /\ start_cause = StartCauseInit
    /\ queue = <<>>
    /\ pumped = FALSE
    /\ wpc = [c \in Callers |-> "idle"]
    /\ handlers = FALSE
    /\ posted = FALSE
    /\ native_exit = FALSE
    /\ has_window = FALSE
    /\ released = 0
    /\ now = 0
    /\ nextId = 1
    /\ pushed = <<>>
    /\ delivered = <<>>
    /\ iterLog = <<>>
    /\ passStart = 0
    /\ swapNextId = 1
    /\ ccsCalls = 0
    /\ initCalls = 0
    /\ hookWake = 0
    /\ itersAfterExit = 0
    /\ exitHook = "none"
    /\ suppressed = FALSE
    /\ sigLog = <<>>
    /\ event_loop_created = FALSE
    /\ npc = [c \in Callers |-> "idle"]
    /\ loop_state = "none"
    /\ newLog = <<>>
    /\ display_info = FALSE
    /\ surface_size = Size(0, 0)
    /\ scale_factor = One
    /\ writer_cell = NoCell
    /\ lastDpi = NoDpi
    /\ appWrote = NoWrite
    /\ ptrLog = <<>>
    /\ windowsOk = 0
    /\ frames = NoFrames
    /\ owner = AllFree
    /\ callLog = <<>>
    /\ exit_code = NoCode
    /\ WinInit

\* EventLoop::new, the swap on the static flag: the call's result is decided
\* by the value the swap returns.
NewSwap(c) ==
    /\ npc[c] = "idle"
    /\ Len(newLog) < MaxNewCalls
    /\ event_loop_created' = TRUE
    /\ npc' = [npc EXCEPT ![c] = IF event_loop_created THEN "err" ELSE "ok"]
    /\ newLog' = Append(newLog,
                        [result |-> IF event_loop_created
                                    THEN "RecreationAttempt" ELSE "Ok",
                         loop |-> loop_state])
    /\ UNCHANGED <<runnerVars, loopVars, wpc, envVars, histVars>>
    /\ UNCHANGED <<loop_state, dpiVars, obsVars,
                   extVars, winVars>>

\* EventLoop::new returns: Err(RecreationAttempt), or Ok with the Runner
\* that Runner::new built.
NewReturn(c) ==
    /\ npc[c] # "idle"
    /\ npc' = [npc EXCEPT ![c] = "idle"]
    /\ IF npc[c] = "ok"
       THEN loop_state' = "held" /\ pc' = "created"
       ELSE UNCHANGED <<loop_state, pc>>
    /\ UNCHANGED <<runnerVars, hook, start_cause, queue, pumped, wpc, envVars,
                   histVars>>
    /\ UNCHANGED <<event_loop_created, newLog, dpiVars, obsVars,
                   extVars, winVars>>

\* An EventLoop whose drop gave the static flag back.
DropLoop_ResetsFlag ==
    /\ loop_state = "held"
    /\ loop_state' = "dropped"
    /\ pc' = "start"
    /\ event_loop_created' = FALSE
    /\ UNCHANGED <<runnerVars, hook, start_cause, queue, pumped, wpc, envVars,
                   histVars>>
    /\ UNCHANGED <<npc, newLog, dpiVars, obsVars,
                   extVars, winVars>>

\* The EventLoop is dropped without having been run: EventLoop has no Drop
\* impl and nothing writes the static flag.
DropLoop ==
    /\ loop_state = "held"
    /\ loop_state' = "dropped"
    /\ pc' = "start"
    /\ UNCHANGED <<runnerVars, hook, start_cause, queue, pumped, wpc, envVars,
                   histVars>>
    /\ UNCHANGED <<event_loop_created, npc, newLog, dpiVars, obsVars,
                   extVars, winVars>>

ProcNext ==
    \/ \E c \in Callers : NewSwap(c) \/ NewReturn(c)
    \/ DropLoop
    \/ RunApp

ProcSpec == ProcInit /\ [][ProcNext]_vars


\* ------------------------------------------------------------------ the display specification

\* What info.LogicalDpi() gives the handler: a reading, or an error.
DpiReadings ==
    {[ok |-> TRUE, dpi |-> d] : d \in DpiValues}
        \cup {[ok |-> FALSE, dpi |-> Frac(96, 1)]}

\* Sizes the application asks of a SurfaceSizeWriter.
AppSizes == {Size(7, 7)}

\* WindowEvent::ScaleFactorChanged { scale_factor, surface_size_writer }, as
\* queued; size is what the writer's cell held when the event was built.
ScaleFactorChanged(scale, size, n) ==
    [type |-> "Window", name |-> "ScaleFactorChanged", id |-> n,
     scale_factor |-> scale, size |-> size]

\* Runner::handle_dpi_changed. resolves: the stored DisplayInformation
\* resolves; reading: what LogicalDpi returns. tolerant: the handler returns
\* early when the new scale is within f64::EPSILON of the cached one;
\* resizes: it stores the converted size. The Arc behind the writer lives
\* from its creation to the handler's return: the handler only queues the
\* event, reads the cell back and returns, so the cell is gone before the
\* event is dispatched.
handle_dpi_changed(resolves, reading, tolerant, resizes) ==
    LET new_dpi == IF reading.ok THEN reading.dpi ELSE Frac(96, 1)
        new_scale == dpi_to_scale_factor(new_dpi)
        old_scale == scale_factor
        old_size == surface_size
        new_size == Size(rescale(old_size.w, old_scale, new_scale),
                         rescale(old_size.h, old_scale, new_scale))
        returns == ~resolves \/ (tolerant /\ BelowEpsilon(new_scale, old_scale))
    IN /\ pc = "pumping"
       /\ handlers
       /\ display_info
       /\ lastDpi.signals < MaxDpiSignals
       /\ IF returns
          THEN UNCHANGED <<scale_factor, surface_size, writer_cell, events,
                           pushed, nextId>>
          ELSE /\ scale_factor' = new_scale
               /\ queue_event(ScaleFactorChanged(new_scale, new_size, nextId))
               /\ surface_size' = IF resizes THEN new_size ELSE surface_size
               /\ writer_cell' = [alive |-> FALSE, size |-> new_size]
       /\ lastDpi' = [signals |-> lastDpi.signals + 1,
                      resolved |-> resolves,
                      dpi |-> new_dpi,
                      old_scale |-> old_scale,
                      old_size |-> old_size,
                      emitted |-> Len(events') - Len(events)]
       /\ appWrote' = NoWrite
       /\ pumped' = TRUE
       /\ UNCHANGED <<app, control_flow, exit, window, dispatcher,
                      window_created, wakeup_pending, pending_keydown>>
       /\ UNCHANGED <<pc, hook, start_cause, queue, wpc, envVars>>
       /\ UNCHANGED <<delivered, iterLog, passStart, swapNextId, ccsCalls,
                      initCalls, hookWake, itersAfterExit, exitHook,
                      suppressed, sigLog>>
       /\ UNCHANGED <<procVars, display_info, ptrLog, windowsOk,
                      extVars, winVars>>

\* A handler without the early return on an unchanged scale.
DpiChanged_NoTolerance(resolves, reading) ==
    handle_dpi_changed(resolves, reading, FALSE, TRUE)

\* A handler that leaves the cached surface size as it was.
DpiChanged_KeepsSize(resolves, reading) ==
    handle_dpi_changed(resolves, reading, TRUE, FALSE)

\* The handler as written.
DpiChanged(resolves, reading) ==
    handle_dpi_changed(resolves, reading, TRUE, TRUE)

\* The application, handed a ScaleFactorChanged event by window_event, calls
\* SurfaceSizeWriter::request_surface_size(size): the write lands in the
\* cell if the cell is still alive and is refused otherwise.
RequestSurfaceSize(size) ==
    /\ pc = "hook"
    /\ hook = "window_event"
    /\ delivered[Len(delivered)].name = "ScaleFactorChanged"
    /\ ~appWrote.some
    /\ writer_cell' = IF writer_cell.alive
                      THEN [writer_cell EXCEPT !.size = size]
                      ELSE writer_cell
    /\ appWrote' = [some |-> TRUE, size |-> size]
    /\ UNCHANGED <<runnerVars, loopVars, wpc, envVars, histVars>>
    /\ UNCHANGED <<procVars, display_info, surface_size, scale_factor,
                   lastDpi, ptrLog, windowsOk, extVars, winVars>>

\* The first iteration's pump with the window and the display bound, over
\* the displays set_window may have found.
DpiInit ==
    /\ app = "stored"
    /\ control_flow = Wait
    /\ exit = FALSE
    /\ events = <<>>
    /\ window = TRUE
    /\ dispatcher = TRUE
    /\ window_created = FALSE
    /\ wakeup_pending = FALSE
    /\ pending_keydown = NoPending
    /\ pc = "pumping"
    /\ hook = "none"
    /\ start_cause = StartCauseInit
    /\ queue = <<>>
    /\ pumped = FALSE
    /\ wpc = [c \in Callers |-> "idle"]
    /\ handlers = TRUE
    /\ posted = FALSE
    /\ native_exit = FALSE
    /\ has_window = FALSE
    /\ released = 0
    /\ now = 0
    /\ nextId = 1
    /\ pushed = <<>>
    /\ delivered = <<>>
    /\ iterLog = <<"new_events", "can_create_surfaces", "pump">>
    /\ passStart = 0
    /\ swapNextId = 1
    /\ ccsCalls = 1
    /\ initCalls = 1
    /\ hookWake = 0
    /\ itersAfterExit = 0
    /\ exitHook = "none"
    /\ suppressed = FALSE
    /\ sigLog = <<>>
    /\ event_loop_created = TRUE
    /\ npc = [c \in Callers |-> "idle"]
    /\ loop_state = "run"
    /\ newLog = <<[result |-> "Ok", loop |-> "none"]>>
    /\ display_info = TRUE
    /\ \E d \in DpiValues, b \in LogicalSizes :
          /\ scale_factor = dpi_to_scale_factor(d)
          /\ surface_size = Size(to_physical(b.w, scale_factor),
                                 to_physical(b.h, scale_factor))
    /\ writer_cell = NoCell
    /\ lastDpi = NoDpi
    /\ appWrote = NoWrite
    /\ ptrLog = <<>>
    /\ windowsOk = 0
    /\ frames = NoFrames
    /\ owner = AllFree
    /\ callLog = <<>>
    /\ exit_code = NoCode
    /\ WinInit

DpiNext ==
    \/ \E resolves \in BOOLEAN, reading \in DpiReadings :
          DpiChanged(resolves, reading)
    \/ \E size \in AppSizes : RequestSurfaceSize(size)
    \/ PumpReturn
    \/ SwapQueue
    \/ DispatchOne
    \/ DispatchDone
    \/ HookReturn
    \/ AboutToWait
    \/ CheckExit
    \/ NewEvents
    \/ ProcessOsEvents

DpiSpec == DpiInit /\ [][DpiNext]_vars


\* ------------------------------------------------------------------ the pointer specification

\* PointerEventArgs as a callback receives them. ok: args.CurrentPoint()
\* succeeds; props: point.Properties() succeeds; the other fields are what
\* the point, its device and its properties hold when they can be read
\* (one value stands for them when they cannot).
WheelDeltas == {120, -240}
PointerArgs ==
    LET all == [ok : BOOLEAN, props : BOOLEAN, x : {2}, primary : BOOLEAN,
                device : {"Mouse", "None"},
                update : {"LeftButtonPressed", "RightButtonPressed"},
                delta : WheelDeltas, horizontal : BOOLEAN]
        unread(a) == /\ a.primary
                     /\ a.update = "LeftButtonPressed"
                     /\ a.delta = 120
                     /\ ~a.horizontal
    IN {a \in all : /\ a.ok \/ (~a.props /\ a.device = "None")
                    /\ a.props \/ unread(a)}

\* LogicalPosition::to_physical::<f64>(scale) of one coordinate.
position_to_physical(v, scale) ==
    IF v = 0 THEN Frac(0, 1)
    ELSE IF scale.t > 0 THEN Tiny(v * scale.t)
    ELSE Reduce(v * scale.n, scale.d)

\* Runner::pointer_details(point): position, primary, source and kind, with
\* the defaults taken when the properties or the device cannot be read.
pointer_details(a) ==
    LET source == CASE a.device = "Mouse" -> [tag |-> "Mouse"]
                    [] a.device = "Touch" -> [tag |-> "Touch"]
                    [] OTHER -> [tag |-> "Unknown"]
    IN [position |-> position_to_physical(a.x, scale_factor),
        primary |-> IF a.props THEN a.primary ELSE TRUE,
        source |-> source,
        kind |-> source.tag]

\* fn button_source_from_point(props, source); props is None when the
\* properties could not be read.
button_source_from_point(a, source) ==
    CASE source.tag = "Mouse" ->
            [tag |-> "Mouse",
             button |-> IF a.props /\ a.update = "RightButtonPressed"
                        THEN "Right" ELSE "Left"]
      [] source.tag = "Touch" -> [tag |-> "Touch", button |-> "none"]
      [] OTHER -> [tag |-> "Unknown", button |-> "0"]

\* A pointer callback: the events es are queued and the signal is recorded.
PointerCallback(name, a, es) ==
    /\ pc = "pumping"
    /\ handlers
    /\ Len(ptrLog) < MaxPointerSignals
    /\ queue_window_events(es)
    /\ ptrLog' = Append(ptrLog,
          [handler |-> name, point |-> a.ok, props |-> a.props,
           emitted |-> Len(es),
           delta |-> IF name = "wheel" /\ a.ok /\ a.props
                     THEN a.delta ELSE 0,
           horizontal |-> name = "wheel" /\ a.ok /\ a.props /\ a.horizontal])
    /\ pumped' = TRUE
    /\ UNCHANGED <<app, control_flow, exit, window, dispatcher,
                   window_created, wakeup_pending, pending_keydown>>
    /\ UNCHANGED <<pc, hook, start_cause, queue, wpc, envVars>>
    /\ UNCHANGED <<delivered, iterLog, passStart, swapNextId, ccsCalls,
                   initCalls, hookWake, itersAfterExit, exitHook,
                   suppressed, sigLog>>
    /\ UNCHANGED <<procVars, dpiVars, lastDpi, appWrote, windowsOk,
                   extVars, winVars>>

\* Runner::handle_pointer_entered.
handle_pointer_entered(a) ==
    LET d == pointer_details(a)
    IN PointerCallback("entered", a,
          IF ~a.ok THEN <<>>
          ELSE <<[type |-> "Window", name |-> "PointerEntered", id |-> 0,
                  position |-> d.position, primary |-> d.primary,
                  kind |-> d.kind]>>)

\* Runner::handle_pointer_exited.
handle_pointer_exited(a) ==
    LET d == pointer_details(a)
    IN PointerCallback("exited", a,
          IF ~a.ok THEN <<>>
          ELSE <<[type |-> "Window", name |-> "PointerLeft", id |-> 0,
                  primary |-> d.primary, kind |-> d.kind]>>)

\* Runner::handle_pointer_moved.
handle_pointer_moved(a) ==
    LET d == pointer_details(a)
    IN PointerCallback("moved", a,
          IF ~a.ok THEN <<>>
          ELSE <<[type |-> "Window", name |-> "PointerMoved", id |-> 0,
                  position |-> d.position, primary |-> d.primary,
                  source |-> d.source]>>)

\* Runner::handle_pointer_button(args, state), for PointerPressed and
\* PointerReleased.
handle_pointer_button(a, state) ==
    LET d == pointer_details(a)
    IN PointerCallback(IF state = "Pressed" THEN "pressed" ELSE "released", a,
          IF ~a.ok THEN <<>>
          ELSE <<[type |-> "Window", name |-> "PointerButton", id |-> 0,
                  state |-> state, position |-> d.position,
                  primary |-> d.primary,
                  button |-> button_source_from_point(a, d.source)]>>)

\* Runner::handle_pointer_wheel: delta / 120 lines on the wheel's axis.
\* flips: the line goes to the other axis.
pointer_wheel(a, flips) ==
    LET line == Reduce(a.delta, 120)
        is_horizontal == (a.horizontal # flips)
    IN PointerCallback("wheel", a,
          IF ~a.ok \/ ~a.props THEN <<>>
          ELSE <<[type |-> "Window", name |-> "MouseWheel", id |-> 0,
                  x |-> IF is_horizontal THEN line ELSE Frac(0, 1),
                  y |-> IF is_horizontal THEN Frac(0, 1) ELSE line,
                  phase |-> "Moved"]>>)

\* A wheel handler that reads the horizontal flag the wrong way round.
handle_pointer_wheel_Flipped(a) == pointer_wheel(a, TRUE)

\* The wheel handler as written.
handle_pointer_wheel(a) == pointer_wheel(a, FALSE)

\* The first iteration's pump with the window bound, as for the display, at
\* a scale of 1.0 or 1.5 and one window size.
PointerInit ==
    /\ DpiInit
    /\ scale_factor \in {One, Frac(3, 2)}
    /\ surface_size.w >= surface_size.h

PointerNext ==
    \E a \in PointerArgs :
        \/ handle_pointer_entered(a)
        \/ handle_pointer_exited(a)
        \/ handle_pointer_moved(a)
        \/ \E state \in {"Pressed", "Released"} : handle_pointer_button(a, state)
        \/ handle_pointer_wheel(a)

PointerSpec == PointerInit /\ [][PointerNext]_vars


\* ------------------------------------------------------------------ the mutex specification

\* The steps of the code that matter to the Runner's mutexes: acquiring one
\* (the guard is made), releasing it (the guard is dropped: at the end of the
\* statement for a temporary, at the end of the tail expression's function
\* for a temporary in a tail expression), a call into native platform code,
\* a std call, an application hook, and the native pump.
L(l) == [k |-> "lock", a |-> l]
U(l) == [k |-> "unlock", a |-> l]
N(f) == [k |-> "native", a |-> f]
S(f) == [k |-> "std", a |-> f]
H(h) == [k |-> "hook", a |-> h]
P(f) == [k |-> "pump", a |-> f]

\* Runner::core_window, Runner::dispatcher and the same expression on
\* display_info: lock().unwrap().as_ref().and_then(|agile| agile.resolve()
\* .ok()), whose guard lives until the expression has been evaluated.
resolve_code(l) == <<N("RoInitialize"), L(l), N("resolve"), U(l)>>
\* Runner::app_ptr.
app_ptr_code == <<L("app"), U("app")>>
\* Runner::queue_event.
queue_event_code == <<L("events"), U("events")>>
\* Runner::wake_up.
wake_up_code == resolve_code("dispatcher") \o <<N("RunAsync")>>
\* Runner::process_os_events.
process_os_events_code ==
    resolve_code("dispatcher")
        \o <<L("control_flow"), U("control_flow"), P("ProcessEvents")>>
\* A dispatch_events that iterates over the queue under its lock.
dispatch_events_UnderLock ==
    <<L("events")>> \o app_ptr_code
        \o <<H("window_event"), H("proxy_wake_up"), U("events")>>
\* Runner::dispatch_events.
dispatch_events_code ==
    <<L("events"), U("events")>> \o app_ptr_code
        \o <<H("window_event"), H("proxy_wake_up")>>
\* The body of run_loop's loop; first: the iteration of StartCause::Init.
run_loop_code(first) ==
    app_ptr_code \o <<H("new_events")>>
        \o (IF first THEN <<H("can_create_surfaces")>> ELSE <<>>)
        \o process_os_events_code \o dispatch_events_code
        \o <<H("about_to_wait")>>
        \o <<L("control_flow"), S("Instant::now"), U("control_flow")>>

\* The code of each operation.
Code(op) ==
    CASE op = "set_window" ->
            <<N("RoInitialize"), N("AgileReference::new"),
              L("window"), U("window"),
              N("Dispatcher"), N("AgileReference::new"),
              L("dispatcher"), U("dispatcher"),
              N("GetForCurrentView"), N("LogicalDpi"),
              N("AgileReference::new"),
              L("display_info"), U("display_info"),
              N("Bounds"), L("surface_size"), U("surface_size"),
              N("register_window_handlers")>>
                \o resolve_code("display_info") \o <<N("DpiChanged")>>
      [] op = "run_loop_init" -> run_loop_code(TRUE)
      [] op = "run_loop" -> run_loop_code(FALSE)
      [] op = "take_app" -> app_ptr_code
      [] op = "set_control_flow" -> <<L("control_flow"), U("control_flow")>>
      [] op = "control_flow" -> <<L("control_flow"), U("control_flow")>>
      [] op = "exit" -> <<N("CoreApplication::Exit")>>
      [] op = "create_window" -> resolve_code("window")
      [] op = "request_redraw" -> queue_event_code \o wake_up_code
      [] op = "surface_size" -> <<L("surface_size"), U("surface_size")>>
      [] op = "wake_up" -> queue_event_code \o wake_up_code
      [] op = "closed" -> queue_event_code
      [] op = "handle_size_changed" ->
            <<N("Size"), L("surface_size"), U("surface_size")>>
                \o queue_event_code
      [] op = "handle_dpi_changed" ->
            resolve_code("display_info")
                \o <<N("LogicalDpi"), L("surface_size"), U("surface_size")>>
                \o queue_event_code
                \o <<L("surface_size"), U("surface_size")>>
      [] op = "handle_key" ->
            <<N("VirtualKey"), N("KeyStatus")>> \o resolve_code("window")
                \o <<N("GetKeyState")>> \o queue_event_code
                \o <<L("pending_keydown"), U("pending_keydown")>>
                \o queue_event_code
                \o <<L("pending_keydown"), U("pending_keydown")>>

\* What the application calls from inside a hook, what other threads call
\* through the proxy and the window, and the native handlers the pump runs.
HookOps == {"set_control_flow", "control_flow", "exit", "create_window",
            "request_redraw", "surface_size", "wake_up"}
ThreadOps == {"wake_up", "request_redraw", "surface_size"}
PumpOps == {"closed", "handle_size_changed", "handle_dpi_changed",
            "handle_key"}

\* The innermost frame of thread t, whether it has run to its end, and the
\* step it stands at.
Top(t) == frames[t][Len(frames[t])]
AtEnd(t) == Top(t).i > Len(Code(Top(t).op))
Instr(t) == Code(Top(t).op)[Top(t).i]
At(t, kind) == frames[t] # <<>> /\ ~AtEnd(t) /\ Instr(t).k = kind
Held(t) == {l \in Locks : owner[l] = t}

\* The thread goes on to its next step; past the last step of an operation
\* called from a hook, from the pump or by another thread it is back in the
\* caller.
Advance(t) ==
    IF Top(t).i = Len(Code(Top(t).op)) /\ (Len(frames[t]) > 1 \/ t # Main)
    THEN frames' = [frames EXCEPT
                       ![t] = SubSeq(frames[t], 1, Len(frames[t]) - 1)]
    ELSE frames' = [frames EXCEPT ![t][Len(frames[t])].i = Top(t).i + 1]
Push(t, op) ==
    frames' = [frames EXCEPT ![t] = Append(frames[t], [op |-> op, i |-> 1])]

lockFrame ==
    <<runnerVars, loopVars, wpc, envVars, histVars, procVars, dpiVars,
      obsVars, callLog, exit_code, winVars>>

\* Mutex::lock: the thread goes on once the mutex is free.
LockAcquire(t) ==
    /\ At(t, "lock")
    /\ owner[Instr(t).a] = "free"
    /\ owner' = [owner EXCEPT ![Instr(t).a] = t]
    /\ Advance(t)
    /\ UNCHANGED lockFrame

\* The guard is dropped.
LockRelease(t) ==
    /\ At(t, "unlock")
    /\ owner' = [owner EXCEPT ![Instr(t).a] = "free"]
    /\ Advance(t)
    /\ UNCHANGED lockFrame

\* A native or std call returns.
NativeCall(t) ==
    /\ At(t, "native") \/ At(t, "std")
    /\ Advance(t)
    /\ UNCHANGED <<owner, lockFrame>>

\* Inside a hook the application calls an operation of the event loop or of
\* the window.
HookCall(op) ==
    /\ At(Main, "hook")
    /\ Push(Main, op)
    /\ UNCHANGED <<owner, lockFrame>>

\* The hook returns.
HookDone ==
    /\ At(Main, "hook")
    /\ Advance(Main)
    /\ UNCHANGED <<owner, lockFrame>>

\* Inside ProcessEvents a native handler is run.
PumpCallback(op) ==
    /\ At(Main, "pump")
    /\ Push(Main, op)
    /\ UNCHANGED <<owner, lockFrame>>

\* ProcessEvents returns.
PumpDone ==
    /\ At(Main, "pump")
    /\ Advance(Main)
    /\ UNCHANGED <<owner, lockFrame>>

\* The loop thread goes from SetWindow to Run, from one iteration to the
\* next, and out of the loop to take_app.
LoopStep ==
    /\ Len(frames[Main]) = 1
    /\ AtEnd(Main)
    /\ \E next \in {"run_loop_init", "run_loop", "take_app"} :
          /\ Top(Main).op = "set_window" => next = "run_loop_init"
          /\ Top(Main).op \in {"run_loop_init", "run_loop"}
                => next \in {"run_loop", "take_app"}
          /\ Top(Main).op # "take_app"
          /\ frames' = [frames EXCEPT ![Main] = <<[op |-> next, i |-> 1]>>]
    /\ UNCHANGED <<owner, lockFrame>>

\* Another thread calls wake_up through its proxy, or an operation of the
\* window.
ThreadCall(t, op) ==
    /\ frames[t] = <<>>
    /\ Push(t, op)
    /\ UNCHANGED <<owner, lockFrame>>

\* The framework calls IFrameworkView::SetWindow on the Runner that
\* Runner::new made.
LockInit ==
    /\ app = "stored"
    /\ control_flow = Wait
    /\ exit = FALSE
    /\ events = <<>>
    /\ window = FALSE
    /\ dispatcher = FALSE
    /\ window_created = FALSE
    /\ wakeup_pending = FALSE
    /\ pending_keydown = NoPending
    /\ pc = "native_run"
    /\ hook = "none"
    /\ start_cause = StartCauseInit
    /\ queue = <<>>
    /\ pumped = FALSE
    /\ wpc = [c \in Callers |-> "idle"]
    /\ handlers = FALSE
    /\ posted = FALSE
    /\ native_exit = FALSE
    /\ has_window = FALSE
    /\ released = 0
    /\ now = 0
    /\ nextId = 1
    /\ pushed = <<>>
    /\ delivered = <<>>
    /\ iterLog = <<>>
    /\ passStart = 0
    /\ swapNextId = 1
    /\ ccsCalls = 0
    /\ initCalls = 0
    /\ hookWake = 0
    /\ itersAfterExit = 0
    /\ exitHook = "none"
    /\ suppressed = FALSE
    /\ sigLog = <<>>
    /\ event_loop_created = TRUE
    /\ npc = [c \in Callers |-> "idle"]
    /\ loop_state = "run"
    /\ newLog = <<[result |-> "Ok", loop |-> "none"]>>
    /\ display_info = FALSE
    /\ surface_size = Size(0, 0)
    /\ scale_factor = One
    /\ writer_cell = NoCell
    /\ lastDpi = NoDpi
    /\ appWrote = NoWrite
    /\ ptrLog = <<>>
    /\ windowsOk = 0
    /\ frames = [c \in Callers |->
                    IF c = Main THEN <<[op |-> "set_window", i |-> 1]>>
                    ELSE <<>>]
    /\ owner = AllFree
    /\ callLog = <<>>
    /\ exit_code = NoCode
    /\ WinInit

LockNext ==
    \/ \E t \in Callers :
          \/ LockAcquire(t)
          \/ LockRelease(t)
          \/ NativeCall(t)
    \/ \E op \in HookOps : HookCall(op)
    \/ HookDone
    \/ \E op \in PumpOps : PumpCallback(op)
    \/ PumpDone
    \/ LoopStep
    \/ \E t \in Threads, op \in ThreadOps : ThreadCall(t, op)

LockSpec == LockInit /\ [][LockNext]_vars


\* ------------------------------------------------------------------ the clock specification

\* IFrameworkView::Run has just entered run_loop on a Runner whose window
\* and dispatcher SetWindow has bound; the clock stands at 0.
TimeInit ==
    /\ app = "stored"
    /\ control_flow = Wait
    /\ exit = FALSE
    /\ events = <<>>
    /\ window = TRUE
    /\ dispatcher = TRUE
    /\ window_created = FALSE
    /\ wakeup_pending = FALSE
    /\ pending_keydown = NoPending
    /\ pc = "iter_start"
    /\ hook = "none"
    /\ start_cause = StartCauseInit
    /\ queue = <<>>
    /\ pumped = FALSE
    /\ wpc = [c \in Callers |-> "idle"]
    /\ handlers = TRUE
    /\ posted = FALSE
    /\ native_exit = FALSE
    /\ has_window = FALSE
    /\ released = 0
    /\ now = 0
    /\ nextId = 1
    /\ pushed = <<>>
    /\ delivered = <<>>
    /\ iterLog = <<>>
    /\ passStart = 0
    /\ swapNextId = 1
    /\ ccsCalls = 0
    /\ initCalls = 0
    /\ hookWake = 0
    /\ itersAfterExit = 0
    /\ exitHook = "none"
    /\ suppressed = FALSE
    /\ sigLog = <<>>
    /\ event_loop_created = TRUE
    /\ npc = [c \in Callers |-> "idle"]
    /\ loop_state = "run"
    /\ newLog = <<[result |-> "Ok", loop |-> "none"]>>
    /\ display_info = TRUE
    /\ surface_size = Size(3, 1)
    /\ scale_factor = One
    /\ writer_cell = NoCell
    /\ lastDpi = NoDpi
    /\ appWrote = NoWrite
    /\ ptrLog = <<>>
    /\ windowsOk = 0
    /\ frames = NoFrames
    /\ owner = AllFree
    /\ callLog = <<>>
    /\ exit_code = NoCode
    /\ WinInit

\* The run loop with a clock that advances at any moment and an application
\* that chooses among all control flows.
TimeNext ==
    \/ NewEvents \/ HookReturn \/ AboutToWait \/ CheckExit
    \/ ProcessOsEvents \/ NativeCallback \/ PumpReturn
    \/ SwapQueue \/ DispatchOne \/ DispatchDone
    \/ \E cf \in ControlFlows : SetControlFlow(cf)
    \/ Tick

TimeSpec == TimeInit /\ [][TimeNext]_vars


\* ------------------------------------------------------------------ the window-operation specification

\* Operations with no native equivalent: ActiveEventLoop::create_custom_cursor
\* and the Window operations that return a not-supported error.
UnsupportedOps ==
    {"create_custom_cursor", "set_cursor_position", "set_cursor_grab",
     "drag_window", "drag_resize_window", "set_cursor_hittest",
     "outer_position", "request_ime_update"}

\* Window operations that go through the weak CoreWindow reference.
HandleOps ==
    {"is_visible", "focus_window", "window_handle", "set_cursor_visible",
     "safe_area", "core_window"}

\* The thread calls operations of the ActiveEventLoop and of the Window it
\* holds from inside a hook; a panic inside a hook ends the process.
CanCallWindow ==
    /\ MainCanCall
    /\ has_window
    /\ Len(callLog) < MaxCalls
    /\ \A i \in 1..Len(callLog) : callLog[i].result # "panic"

apiFrame ==
    <<runnerVars, loopVars, wpc, envVars, histVars, procVars, dpiVars,
      obsVars, frames, owner, exit_code, winVars>>

\* An operation with no native equivalent: its body is
\* Err(NotSupportedError::new(..).into()), or Err(ImeRequestError::
\* NotSupported), whatever the state of the native handles (resolves).
unsupported_call(op, resolves, result) ==
    /\ CanCallWindow
    /\ callLog' = Append(callLog, [op |-> op, resolves |-> resolves,
                                   view |-> TRUE, result |-> result])
    /\ UNCHANGED apiFrame

\* An unsupported operation that reports success.
UnsupportedCall_Accepts(op, resolves) == unsupported_call(op, resolves, "Ok")

\* The unsupported operations as written.
UnsupportedCall(op, resolves) ==
    unsupported_call(op, resolves, "NotSupported")

\* What a Window operation that needs the CoreWindow gives. resolves: the
\* weak reference resolves; view: ApplicationView::GetForCurrentView and
\* VisibleBounds succeed. Window::core_window unwraps the reference with
\* expect, and safe_area goes through it.
handle_result(op, resolves, view) ==
    CASE op = "is_visible" -> IF resolves THEN "Some" ELSE "None"
      [] op = "focus_window" -> IF resolves THEN "Activate" ELSE "skipped"
      [] op = "window_handle" -> IF resolves THEN "Ok" ELSE "Unavailable"
      [] op = "set_cursor_visible" ->
            IF resolves THEN "SetPointerCursor" ELSE "skipped"
      [] op = "safe_area" ->
            IF ~view THEN "zero"
            ELSE IF resolves THEN "insets" ELSE "panic"
      [] op = "core_window" -> IF resolves THEN "CoreWindow" ELSE "panic"

\* The application calls a Window operation that needs the CoreWindow.
HandleCall(op, resolves, view) ==
    /\ CanCallWindow
    /\ callLog' = Append(callLog,
          [op |-> op, resolves |-> resolves, view |-> view,
           result |-> handle_result(op, resolves, view)])
    /\ UNCHANGED apiFrame

\* Inside can_create_surfaces, after create_window has given the window.
ApiInit ==
    /\ app = "stored"
    /\ control_flow = Wait
    /\ exit = FALSE
    /\ events = <<>>
    /\ window = TRUE
    /\ dispatcher = TRUE
    /\ window_created = TRUE
    /\ wakeup_pending = FALSE
    /\ pending_keydown = NoPending
    /\ pc = "hook"
    /\ hook = "can_create_surfaces"
    /\ start_cause = StartCauseInit
    /\ queue = <<>>
    /\ pumped = FALSE
    /\ wpc = [c \in Callers |-> "idle"]
    /\ handlers = TRUE
    /\ posted = FALSE
    /\ native_exit = FALSE
    /\ has_window = TRUE
    /\ released = 0
    /\ now = 0
    /\ nextId = 1
    /\ pushed = <<>>
    /\ delivered = <<>>
    /\ iterLog = <<"new_events", "can_create_surfaces">>
    /\ passStart = 0
    /\ swapNextId = 1
    /\ ccsCalls = 1
    /\ initCalls = 1
    /\ hookWake = 0
    /\ itersAfterExit = 0
    /\ exitHook = "none"
    /\ suppressed = FALSE
    /\ sigLog = <<>>
    /\ event_loop_created = TRUE
    /\ npc = [c \in Callers |-> "idle"]
    /\ loop_state = "run"
    /\ newLog = <<[result |-> "Ok", loop |-> "none"]>>
    /\ display_info = TRUE
    /\ surface_size = Size(3, 1)
    /\ scale_factor = One
    /\ writer_cell = NoCell
    /\ lastDpi = NoDpi
    /\ appWrote = NoWrite
    /\ ptrLog = <<>>
    /\ windowsOk = 1
    /\ frames = NoFrames
    /\ owner = AllFree
    /\ callLog = <<>>
    /\ exit_code = NoCode
    /\ WinInit

ApiNext ==
    \/ \E op \in UnsupportedOps, resolves \in BOOLEAN :
          UnsupportedCall(op, resolves)
    \/ \E op \in HandleOps, resolves \in BOOLEAN, view \in BOOLEAN :
          HandleCall(op, resolves, view)

ApiSpec == ApiInit /\ [][ApiNext]_vars


\* ------------------------------------------------------------------ the focus specification

\* The number of activation signals of the focus specification.
MaxActivations == 3

\* CoreWindowActivationState.
ActivationStates == {"CodeActivated", "Deactivated", "PointerActivated"}
\* What the Activated handler is called with: no arguments object, one whose
\* WindowActivationState() fails, or an activation state.
ActivationArgs == {"none", "error"} \cup ActivationStates

\* WindowEvent::Focused, as queued.
Focused(active, n) ==
    [type |-> "Window", name |-> "Focused", id |-> n, focused |-> active]

\* The Activated handler register_window_handlers installs. stores: the
\* handler writes the state into has_focus.
handle_activated(args, stores) ==
    LET active == args # "Deactivated"
    IN /\ pc = "pumping"
       /\ handlers
       /\ Len(sigLog) < MaxActivations
       /\ sigLog' = Append(sigLog, [sig |-> "activated", sc |-> 0,
                                    code |-> args])
       /\ IF args \in ActivationStates
          THEN /\ has_focus' = IF stores THEN active ELSE has_focus
               /\ queue_window_events(<<Focused(active, 0)>>)
          ELSE UNCHANGED <<has_focus, events, pushed, nextId>>
       /\ pumped' = TRUE
       /\ UNCHANGED <<app, control_flow, exit, window, dispatcher,
                      window_created, wakeup_pending, pending_keydown>>
       /\ UNCHANGED <<pc, hook, start_cause, queue, wpc, envVars>>
       /\ UNCHANGED <<delivered, iterLog, passStart, swapNextId, ccsCalls,
                      initCalls, hookWake, itersAfterExit, exitHook,
                      suppressed>>
       /\ UNCHANGED <<procVars, dpiVars, obsVars, extVars>>
       /\ UNCHANGED <<cursor_visible, cursor_icon, pointer_cursor, scancode,
                      physical_key, scan_result>>

\* An Activated handler that enqueues the event and leaves has_focus alone.
Activated_OnlyEnqueues(args) == handle_activated(args, FALSE)

\* The Activated handler as written.
Activated(args) == handle_activated(args, TRUE)

FocusNext == \E args \in ActivationArgs : Activated(args)

FocusSpec == KeyInit /\ [][FocusNext]_vars

\* ------------------------------------------------------------------ the cursor specification

\* The number of cursor calls of the cursor specification.
MaxCursorCalls == 3

\* Some of winit_core's CursorIcon values.
CursorIcons == {"Default", "Pointer", "Grab", "Text"}
\* winit_core's Cursor: an icon or a custom cursor.
NoCursor == [kind |-> "none", icon |-> ""]
Cursors == {[kind |-> "Icon", icon |-> i] : i \in CursorIcons}
               \cup {[kind |-> "Custom", icon |-> ""]}

\* fn cursor_icon_to_core.
cursor_icon_to_core(icon) ==
    CASE icon = "Default" -> "Arrow"
      [] icon \in {"Pointer", "Grab", "Grabbing"} -> "Hand"
      [] icon \in {"Text", "VerticalText"} -> "IBeam"
      [] icon = "Crosshair" -> "Cross"
      [] OTHER -> "Arrow"

\* The application calls a cursor operation of the Window it holds.
CanCallCursor ==
    /\ MainCanCall
    /\ has_window
    /\ Len(callLog) < MaxCursorCalls

cursorFrame ==
    <<runnerVars, loopVars, wpc, envVars, histVars, procVars, dpiVars,
      obsVars, frames, owner, exit_code, has_focus, scancode, physical_key,
      scan_result>>

\* Window::set_core_cursor. ok: CreateCursor succeeds, the CoreWindow
\* resolves and SetPointerCursor succeeds.
set_core_cursor(cursor_type, ok) ==
    pointer_cursor' = IF ok THEN cursor_type ELSE pointer_cursor

\* Window::set_cursor. checks: the cursor is only applied while visible.
set_cursor(cursor, ok, checks) ==
    /\ CanCallCursor
    /\ callLog' = Append(callLog, [op |-> "set_cursor", cursor |-> cursor,
                                   visible |-> cursor_visible, ok |-> ok])
    /\ IF cursor.kind = "Icon"
       THEN /\ cursor_icon' = cursor_icon_to_core(cursor.icon)
            /\ IF cursor_visible \/ ~checks
               THEN set_core_cursor(cursor_icon_to_core(cursor.icon), ok)
               ELSE UNCHANGED pointer_cursor
       ELSE UNCHANGED <<cursor_icon, pointer_cursor>>
    /\ UNCHANGED cursor_visible
    /\ UNCHANGED cursorFrame

\* A set_cursor that applies the icon whether or not the cursor is visible.
SetCursor_ShowsHidden(cursor, ok) == set_cursor(cursor, ok, FALSE)

\* Window::set_cursor as written.
SetCursor(cursor, ok) == set_cursor(cursor, ok, TRUE)

\* Window::set_cursor_visible.
SetCursorVisible(visible, ok) ==
    /\ CanCallCursor
    /\ callLog' = Append(callLog, [op |-> "set_cursor_visible",
                                   cursor |-> NoCursor,
                                   visible |-> visible, ok |-> ok])
    /\ cursor_visible' = visible
    /\ IF visible
       THEN set_core_cursor(cursor_icon, ok)
       ELSE pointer_cursor' = IF ok THEN "None" ELSE pointer_cursor
    /\ UNCHANGED cursor_icon
    /\ UNCHANGED cursorFrame

CursorNext ==
    \/ \E cursor \in Cursors, ok \in BOOLEAN : SetCursor(cursor, ok)
    \/ \E visible \in BOOLEAN, ok \in BOOLEAN : SetCursorVisible(visible, ok)

CursorSpec == ApiInit /\ [][CursorNext]_vars

\* ------------------------------------------------------------------ the scancode specification

\* The low halves of the scancodes tried go up to this.
MaxScanLow == 15

\* The number of values of a u16.
U16 == 65536

\* u32 scancodes: every low half up to the bound and the largest one, under
\* high halves zero, one, two and the largest that fits the checker's
\* integers.
ScanInputs ==
    {h * U16 + l : h \in {0, 1, 2, 32767},
                   l \in (0..MaxScanLow) \cup {U16 - 1}}

\* winit_core's PhysicalKey: Code(KeyCode) or Unidentified(NativeKeyCode),
\* the latter Unidentified, Android(u32), MacOS(u16), Windows(u16) or
\* Xkb(u32).
PhysicalKeys ==
    {[kind |-> "Code", native |-> "", code |-> 0],
     [kind |-> "Unidentified", native |-> "Unidentified", code |-> 0]}
        \cup {[kind |-> "Unidentified", native |-> n, code |-> c] :
                 n \in {"Android", "MacOS", "Xkb", "Windows"},
                 c \in {0, 30, U16 - 1}}

\* Option<u32>.
SomeCode(n) == [kind |-> "Some", value |-> n]
NoneCode == [kind |-> "None", value |-> 0]

\* `as u16` of a u32, and `as u32` of a u16, which keeps the value.
as_u16(n) == n % U16
as_u32(n) == n

\* pub fn scancode_to_physicalkey. truncates: the cast to u16 is made.
scancode_to_physicalkey(s, truncates) ==
    [kind |-> "Unidentified", native |-> "Windows",
     code |-> IF truncates THEN as_u16(s) ELSE s]

\* pub fn physicalkey_to_scancode.
physicalkey_to_scancode(k) ==
    IF k.kind = "Unidentified" /\ k.native = "Windows"
    THEN SomeCode(as_u32(k.code))
    ELSE NoneCode

scanFrame ==
    <<runnerVars, loopVars, wpc, envVars, histVars, procVars, dpiVars,
      obsVars, frames, owner, exit_code, has_focus, cursor_visible,
      cursor_icon, pointer_cursor, scancode>>

\* The application converts the scancode it holds.
to_physicalkey(truncates) ==
    /\ callLog = <<>>
    /\ physical_key' = scancode_to_physicalkey(scancode, truncates)
    /\ callLog' = Append(callLog, [op |-> "scancode_to_physicalkey",
                                   arg |-> scancode, result |-> physical_key'])
    /\ UNCHANGED scan_result
    /\ UNCHANGED scanFrame

\* A conversion that keeps all 32 bits of the scancode.
ScancodeToPhysicalkey_Keeps32 == to_physicalkey(FALSE)

\* The conversion as written.
ScancodeToPhysicalkey == to_physicalkey(TRUE)

\* The application converts the physical key it holds.
PhysicalkeyToScancode ==
    /\ scan_result = NoResult
    /\ scan_result' = physicalkey_to_scancode(physical_key)
    /\ callLog' = Append(callLog, [op |-> "physicalkey_to_scancode",
                                   arg |-> physical_key,
                                   result |-> scan_result'])
    /\ UNCHANGED physical_key
    /\ UNCHANGED scanFrame

\* The application holds a scancode and a physical key.
ScanInit ==
    /\ app = "stored"
    /\ control_flow = Wait
    /\ exit = FALSE
    /\ events = <<>>
    /\ window = TRUE
    /\ dispatcher = TRUE
    /\ window_created = FALSE
    /\ wakeup_pending = FALSE
    /\ pending_keydown = NoPending
    /\ pc = "pumping"
    /\ hook = "none"
    /\ start_cause = StartCauseInit
    /\ queue = <<>>
    /\ pumped = FALSE
    /\ wpc = [c \in Callers |-> "idle"]
    /\ handlers = TRUE
    /\ posted = FALSE
    /\ native_exit = FALSE
    /\ has_window = FALSE
    /\ released = 0
    /\ now = 0
    /\ nextId = 1
    /\ pushed = <<>>
    /\ delivered = <<>>
    /\ iterLog = <<"new_events", "can_create_surfaces", "pump">>
    /\ passStart = 0
    /\ swapNextId = 1
    /\ ccsCalls = 1
    /\ initCalls = 1
    /\ hookWake = 0
    /\ itersAfterExit = 0
    /\ exitHook = "none"
    /\ suppressed = FALSE
    /\ sigLog = <<>>
    /\ event_loop_created = TRUE
    /\ npc = [c \in Callers |-> "idle"]
    /\ loop_state = "run"
    /\ newLog = <<[result |-> "Ok", loop |-> "none"]>>
    /\ display_info = TRUE
    /\ surface_size = Size(3, 1)
    /\ scale_factor = One
    /\ writer_cell = NoCell
    /\ lastDpi = NoDpi
    /\ appWrote = NoWrite
    /\ ptrLog = <<>>
    /\ windowsOk = 0
    /\ frames = NoFrames
    /\ owner = AllFree
    /\ callLog = <<>>
    /\ exit_code = NoCode
    /\ has_focus = FALSE
    /\ cursor_visible = TRUE
    /\ cursor_icon = "Arrow"
    /\ pointer_cursor = "Arrow"
    /\ scancode \in ScanInputs
    /\ physical_key \in PhysicalKeys
    /\ scan_result = NoResult

ScanNext ==
    \/ ScancodeToPhysicalkey
    \/ PhysicalkeyToScancode

ScanSpec == ScanInit /\ [][ScanNext]_vars

\* ---------------------------------------------------------------------------
\* Properties of the run loop (specification Spec).

DeliveredIds == {delivered[i].id : i \in 1..Len(delivered)}
InDispatchPass == pc = "dispatch" \/ (pc = "hook" /\ hook \in DispatchHooks)
WakeCount(q) == Cardinality({i \in 1..Len(q) : q[i].type = "WakeUp"})
PendingWakeUps == WakeCount(events) + WakeCount(queue)
WakeUpsInFlight == Cardinality({c \in Callers : wpc[c] = "push"})

\* C1: the hooks window_event / proxy_wake_up are invoked in exactly the order
\* in which the corresponding events were pushed: the delivered events are the
\* pushed events themselves, in increasing order of their push, and the hook
\* that is running is the one that belongs to the type of the event it got.
C1_FifoOrder ==
    /\ \A i, j \in 1..Len(delivered) :
           i < j => delivered[i].id < delivered[j].id
    /\ \A i \in 1..Len(delivered) : delivered[i] = pushed[delivered[i].id]
    /\ (pc = "hook" /\ hook \in DispatchHooks) =>
           /\ delivered # <<>>
           /\ hook = IF delivered[Len(delivered)].type = "WakeUp"
                     THEN "proxy_wake_up" ELSE "window_event"

\* Two events of one batch have been delivered, a window event and a WakeUp.
C1_Witness ==
    /\ Len(delivered) = 2
    /\ passStart = 0
    /\ delivered[1].type # delivered[2].type

\* C2: an event enqueued while a dispatch pass is in progress is not delivered
\* in that pass: everything the current pass has delivered was pushed before
\* the pass swapped the queue out.
C2_NotInSamePass ==
    \A i \in (passStart + 1)..Len(delivered) : delivered[i].id < swapNextId

\* A pass has delivered its whole batch, and an event enqueued during the pass
\* is still waiting in the runner's queue.
C2_Witness ==
    /\ pc = "dispatch"
    /\ queue = <<>>
    /\ Len(delivered) > passStart
    /\ \E i \in 1..Len(events) : events[i].id >= swapNextId

HookRank(h) ==
    CASE h = "new_events" -> 1
      [] h = "can_create_surfaces" -> 2
      [] h = "pump" -> 3
      [] h \in DispatchHooks -> 4
      [] h = "about_to_wait" -> 5

\* C3: in one iteration the order is new_events, then the OS pump, then
\* window_event / proxy_wake_up for the swapped-out batch, then about_to_wait;
\* about_to_wait is invoked exactly once per iteration, after dispatch_events
\* has delivered the whole batch.
C3_IterationOrder ==
    /\ \A i \in 1..(Len(iterLog) - 1) :
           /\ HookRank(iterLog[i]) <= HookRank(iterLog[i + 1])
           /\ HookRank(iterLog[i]) = HookRank(iterLog[i + 1]) =>
                  iterLog[i] \in DispatchHooks
    /\ iterLog # <<>> => iterLog[1] = "new_events"
    /\ \A i \in 1..Len(iterLog) :
           HookRank(iterLog[i]) >= 4 => \E j \in 1..(i - 1) : iterLog[j] = "pump"
    /\ pc \in {"check_exit", "break"} =>
           /\ iterLog # <<>>
           /\ iterLog[Len(iterLog)] = "about_to_wait"
    /\ (iterLog # <<>> /\ iterLog[Len(iterLog)] = "about_to_wait") =>
           /\ queue = <<>>
           /\ \A i \in 1..Len(pushed) :
                  pushed[i].id < swapNextId => pushed[i].id \in DeliveredIds
           /\ Len(delivered) - passStart =
                  Cardinality({i \in 1..Len(iterLog) : iterLog[i] \in DispatchHooks})

\* about_to_wait is running in an iteration whose pass delivered an event.
C3_Witness ==
    /\ pc = "hook"
    /\ hook = "about_to_wait"
    /\ \E i \in 1..Len(iterLog) : iterLog[i] \in DispatchHooks

\* C4: the first new_events has start cause Init and is invoked exactly once;
\* can_create_surfaces is invoked exactly once, immediately after it and
\* before any other hook; no later iteration starts with Init.
C4_InitOnce ==
    /\ initCalls <= 1
    /\ ccsCalls <= 1
    /\ pc = "hook" => initCalls = 1
    /\ (pc = "hook" /\ hook = "new_events" /\ start_cause = StartCauseInit) =>
           ccsCalls = 0 /\ delivered = <<>>
    /\ (pc = "hook" /\ hook = "can_create_surfaces") =>
           /\ iterLog = <<"new_events", "can_create_surfaces">>
           /\ start_cause = StartCauseInit
           /\ delivered = <<>>
    /\ (pc = "hook" /\ hook \in DispatchHooks \cup {"about_to_wait"}) =>
           ccsCalls = 1
    /\ (pc = "hook" /\ hook = "new_events" /\ start_cause # StartCauseInit) =>
           ccsCalls = 1
    /\ (pc = "iter_start" /\ initCalls = 1) => start_cause # StartCauseInit
    /\ pc \in {"break", "done"} => initCalls = 1 /\ ccsCalls = 1

\* A later iteration has begun: new_events is running with a start cause
\* other than Init.
C4_Witness ==
    /\ pc = "hook"
    /\ hook = "new_events"
    /\ start_cause # StartCauseInit
    /\ initCalls = 1
    /\ ccsCalls = 1


\* C5: when exit() is called from window_event or proxy_wake_up, the loop
\* executes no more than one further full iteration (new_events through
\* about_to_wait) before it terminates.
C5_ExitWithinOneIteration == exitHook \in DispatchHooks => itersAfterExit <= 1

\* The loop has terminated after an exit() requested from a dispatch hook.
C5_Witness == exitHook \in DispatchHooks /\ pc = "done"

\* C6: the exit flag is monotonic: once set it stays set for the rest of the
\* loop's life, and a further exit() call changes no Runner state.
C6_ExitMonotonic ==
    [][/\ exit => exit'
       /\ (exit /\ Exit) => UNCHANGED runnerVars]_vars

\* The flag is still set when the loop has ended after an exit() made from a
\* hook that further hooks followed.
C6_Witness == exit /\ pc = "done" /\ exitHook \in {"new_events", "window_event"}

\* C7: in every state at most one undispatched WakeUp exists, queued or
\* swapped out or about to be queued, and two wake_up() calls made before the
\* queued WakeUp is dispatched leave exactly one WakeUp queued.
C7_SingleWakeUp ==
    /\ PendingWakeUps + WakeUpsInFlight <= 1
    /\ suppressed => PendingWakeUps + WakeUpsInFlight = 1
    /\ (suppressed /\ WakeUpsInFlight = 0 /\ ~InDispatchPass) =>
           WakeCount(events) = 1

\* A second wake_up() has found the flag set while the first WakeUp is still
\* in the runner's queue.
C7_Witness ==
    /\ suppressed
    /\ WakeCount(events) = 1
    /\ \A c \in Callers : wpc[c] = "idle"

\* C8 as the specification words it: a WakeUp enqueued by a wake_up() call
\* made inside proxy_wake_up is delivered by a later dispatch pass, so none is
\* left undelivered when the loop has ended.
C8_Original == (pc = "done" /\ hookWake # 0) => hookWake \in DeliveredIds

\* C8: dispatching a WakeUp clears wakeup_pending before proxy_wake_up runs,
\* so a wake_up() made in that hook is not swallowed: a set flag always
\* stands for a WakeUp that is not yet dispatched (in the hook: for a fresh
\* one, not for the one being handled), the WakeUp enqueued from
\* inside the hook is not delivered in the pass that is running, and once a
\* later pass has swapped it out and finished it has been delivered.  A loop
\* that breaks first never delivers it.
C8_WakeUpNotSwallowed ==
    /\ wakeup_pending => PendingWakeUps + WakeUpsInFlight >= 1
    /\ (pc = "hook" /\ hook = "proxy_wake_up" /\ wakeup_pending) =>
           WakeCount(events) + WakeUpsInFlight >= 1
    /\ hookWake # 0 =>
           /\ \/ hookWake \in DeliveredIds
              \/ \E i \in 1..Len(events) : events[i].id = hookWake
              \/ \E i \in 1..Len(queue) : queue[i].id = hookWake
           /\ (InDispatchPass /\ hookWake >= swapNextId) =>
                  hookWake \notin DeliveredIds
           /\ (~InDispatchPass /\ pc # "swap" /\ hookWake < swapNextId) =>
                  hookWake \in DeliveredIds

\* The WakeUp enqueued from inside proxy_wake_up has been delivered.
C8_Witness == hookWake # 0 /\ hookWake \in DeliveredIds


\* ---------------------------------------------------------------------------
\* Properties of the keyboard coalescer (specification KeySpec).

\* The KeyboardInput events pushed so far, in push order.
KeyInputs == SelectSeq(pushed, LAMBDA e : e.name = "KeyboardInput")

\* The native signals are presses that do not interleave: each key-down is
\* followed by at most one character-received and then the key-up of the same
\* scan code, before the next key-down (the last press may be unfinished).
NonInterleaved(log) ==
    \A i \in 1..Len(log) :
        /\ log[i].sig = "down" => (i = 1 \/ log[i - 1].sig = "up")
        /\ log[i].sig = "char" => (i > 1 /\ log[i - 1].sig = "down")
        /\ log[i].sig = "up" =>
              /\ i > 1
              /\ \/ log[i - 1].sig = "down" /\ log[i - 1].sc = log[i].sc
                 \/ log[i - 1].sig = "char" /\ log[i - 2].sc = log[i].sc

\* One press per key-down and one release per key-up, in signal order.
ExpectedKeys(log) ==
    LET ks == SelectSeq(log, LAMBDA g : g.sig # "char")
    IN [i \in 1..Len(ks) |->
           [sc |-> ks[i].sc,
            state |-> IF ks[i].sig = "down" THEN "Pressed" ELSE "Released"]]

EmittedKeys ==
    [i \in 1..Len(KeyInputs) |->
        [sc |-> KeyInputs[i].event.physical_key,
         state |-> KeyInputs[i].event.state]]

BufferedKeys ==
    IF pending_keydown.some
    THEN <<[sc |-> pending_keydown.scancode, state |-> "Pressed"]>>
    ELSE <<>>

\* C9: for presses that do not interleave, the coalescer emits for each key
\* exactly one press and exactly one release, the press before the release
\* (the press of an unfinished last press may still be buffered, nothing is
\* buffered after a key-up), and every release has text None and repeat
\* false.
C9_OnePressOneRelease ==
    NonInterleaved(sigLog) =>
        /\ EmittedKeys \o BufferedKeys = ExpectedKeys(sigLog)
        /\ (sigLog # <<>> /\ sigLog[Len(sigLog)].sig = "up") =>
               ~pending_keydown.some
        /\ \A i \in 1..Len(KeyInputs) :
               KeyInputs[i].event.state = "Released" =>
                   /\ KeyInputs[i].event.text = None
                   /\ KeyInputs[i].event.repeat = FALSE

\* A whole press with its character: key-down, character-received, key-up,
\* and the two events it made.
C9_Witness ==
    /\ Len(sigLog) = 3
    /\ NonInterleaved(sigLog)
    /\ sigLog[2].sig = "char"
    /\ sigLog[3].sig = "up"
    /\ Len(KeyInputs) = 2
    /\ KeyInputs[1].event.repeat

ExampleSignals ==
    <<[sig |-> "down", sc |-> 30, code |-> ""],
      [sig |-> "char", sc |-> 0, code |-> "a", press |-> 1, merged |-> 1],
      [sig |-> "up", sc |-> 30, code |-> ""]>>

\* C10: a character-received signal carrying ch while a key-down is buffered
\* emits that press with logical key Character(ch) and text Some(ch),
\* key_without_modifiers as key-down computed it, and leaves the buffer
\* empty; key-down(scan code 30), character 'a', key-up(scan code 30) gives a
\* press with logical key Character("a") and text Some("a") and a release
\* with text None.
C10_CharacterMerge ==
    [][/\ ( /\ Len(sigLog') = Len(sigLog) + 1
            /\ sigLog'[Len(sigLog')].sig = "char"
            /\ from_u32(sigLog'[Len(sigLog')].code).some
            /\ pending_keydown.some ) =>
              /\ Len(events') = Len(events) + 1
              /\ events'[Len(events')].name = "KeyboardInput"
              /\ events'[Len(events')].event =
                    [pending_keydown.event EXCEPT
                        !.logical_key =
                            [kind |-> "Character",
                             str |-> sigLog'[Len(sigLog')].code],
                        !.text = Some(sigLog'[Len(sigLog')].code),
                        !.text_with_all_modifiers =
                            Some(sigLog'[Len(sigLog')].code)]
              /\ events'[Len(events')].event.key_without_modifiers =
                    pending_keydown.event.key_without_modifiers
              /\ ~pending_keydown'.some
       /\ sigLog' = ExampleSignals =>
              /\ Len(KeyInputs') = 2
              /\ KeyInputs'[1].event.state = "Pressed"
              /\ KeyInputs'[1].event.logical_key =
                    [kind |-> "Character", str |-> "a"]
              /\ KeyInputs'[1].event.text = Some("a")
              /\ KeyInputs'[2].event.state = "Released"
              /\ KeyInputs'[2].event.text = None]_vars

\* The example has run with SHIFT held at key-down: the press carries the
\* character of the signal, "a", while the mapping of the key gave "A", and
\* key_without_modifiers is the unshifted "a".
C10_Witness ==
    /\ sigLog = ExampleSignals
    /\ Len(KeyInputs) = 2
    /\ KeyInputs[1].event.logical_key = [kind |-> "Character", str |-> "a"]
    /\ KeyInputs[1].event.text = Some("a")
    /\ KeyInputs[1].event.key_without_modifiers =
           [kind |-> "Character", str |-> "a"]
    /\ pushed[1].name = "ModifiersChanged"
    /\ pushed[1].mods = {"SHIFT"}
    /\ ~pending_keydown.some


\* The last native key signal, and the events the step that took it pushed.
LastSignal == sigLog[Len(sigLog)]
DownStep == Len(sigLog') = Len(sigLog) + 1 /\ LastSignal'.sig = "down"
UpStep == Len(sigLog') = Len(sigLog) + 1 /\ LastSignal'.sig = "up"
StepEvents == SubSeq(events', Len(events) + 1, Len(events'))
StepKeys == SelectSeq(StepEvents, LAMBDA e : e.name = "KeyboardInput")

\* C11: a key-down that finds a press buffered enqueues that press, with
\* is_synthetic false, before the new press is buffered or enqueued; after
\* two consecutive key-downs of different scan codes the first press has been
\* emitted and the second comes after it.
C11_FlushBeforeNewPress ==
    [][/\ (DownStep /\ pending_keydown.some) =>
              /\ StepKeys # <<>>
              /\ StepKeys[1].event = pending_keydown.event
              /\ StepKeys[1].is_synthetic = FALSE
              /\ \/ /\ Len(StepKeys) = 1
                    /\ pending_keydown'.some
                    /\ pending_keydown'.scancode = LastSignal'.sc
                    /\ pending_keydown'.event.state = "Pressed"
                 \/ /\ Len(StepKeys) = 2
                    /\ ~pending_keydown'.some
                    /\ StepKeys[2].event.physical_key = LastSignal'.sc
                    /\ StepKeys[2].event.state = "Pressed"
       /\ ( /\ DownStep
            /\ Len(sigLog) >= 1
            /\ LastSignal.sig = "down"
            /\ LastSignal.sc # LastSignal'.sc ) =>
              LET all == EmittedKeys' \o BufferedKeys'
              IN /\ Len(all) >= 2
                 /\ Len(EmittedKeys') >= Len(all) - 1
                 /\ all[Len(all) - 1] = [sc |-> LastSignal.sc, state |-> "Pressed"]
                 /\ all[Len(all)] = [sc |-> LastSignal'.sc, state |-> "Pressed"]]_vars

\* Key-down of scan code 30 then key-down of scan code 48: the press of 30
\* has been emitted and the press of 48 is buffered.
C11_Witness ==
    /\ Len(sigLog) = 2
    /\ sigLog[1].sig = "down" /\ sigLog[1].sc = 30
    /\ sigLog[2].sig = "down" /\ sigLog[2].sc = 48
    /\ Len(KeyInputs) = 1
    /\ KeyInputs[1].event.physical_key = 30
    /\ KeyInputs[1].is_synthetic = FALSE
    /\ pending_keydown.some
    /\ pending_keydown.scancode = 48

\* C12: a key-up with scan code s first enqueues a buffered press of scan
\* code s and empties the buffer, leaves a buffered press of another scan code
\* exactly as it was, and in every case enqueues last a release with repeat
\* false, text None and text_with_all_modifiers None.
C12_KeyUpFrame ==
    [][UpStep =>
          LET s == LastSignal'.sc
              release == events'[Len(events')]
          IN /\ StepKeys # <<>>
             /\ release = StepKeys[Len(StepKeys)]
             /\ release.event.state = "Released"
             /\ release.event.physical_key = s
             /\ release.event.repeat = FALSE
             /\ release.event.text = None
             /\ release.event.text_with_all_modifiers = None
             /\ IF pending_keydown.some /\ pending_keydown.scancode = s
                THEN /\ Len(StepKeys) = 2
                     /\ StepKeys[1].event = pending_keydown.event
                     /\ ~pending_keydown'.some
                ELSE /\ Len(StepKeys) = 1
                     /\ pending_keydown' = pending_keydown]_vars

\* Key-down of scan code 30 then key-up of scan code 48: the press of 30 is
\* still buffered and only the release of 48 has been emitted.
C12_Witness ==
    /\ Len(sigLog) = 2
    /\ sigLog[1].sig = "down" /\ sigLog[1].sc = 30
    /\ sigLog[2].sig = "up" /\ sigLog[2].sc = 48
    /\ pending_keydown.some
    /\ pending_keydown.scancode = 30
    /\ Len(KeyInputs) = 1
    /\ KeyInputs[1].event.state = "Released"
    /\ KeyInputs[1].event.physical_key = 48


\* ---------------------------------------------------------------------------
\* Properties of the process and of window creation.

\* C13: over any interleaving of EventLoop::new calls in one process, exactly
\* the first call (the first to reach the flag) returns Ok and every other
\* call returns RecreationAttempt, whether the first event loop is still
\* held, has been run or has been dropped.
C13_FirstNewOnly ==
    /\ \A i \in 1..Len(newLog) :
           newLog[i].result = IF i = 1 THEN "Ok" ELSE "RecreationAttempt"
    /\ event_loop_created <=> newLog # <<>>
    /\ Cardinality({c \in Callers : npc[c] = "ok"}) <= 1
    /\ loop_state # "none" => newLog # <<>>

\* Calls made after the first event loop was dropped, and after it was run,
\* have returned RecreationAttempt.
C13_Witness ==
    /\ Len(newLog) = 3
    /\ \E i, j \in 2..3 :
           /\ newLog[i].loop = "dropped" \/ newLog[i].loop = "run"
           /\ newLog[j].loop = "held"
    /\ \A c \in Callers : npc[c] = "idle"


\* C14: over any sequence of create_window calls on one event loop at most
\* one call returns Ok: once a call has succeeded the latch is set, and every
\* later call returns NotSupported.
C14_SingleWindow ==
    /\ windowsOk <= 1
    /\ windowsOk = 1 => window_created
    /\ has_window => windowsOk = 1

\* A window has been made and the application is in a later hook, where
\* further create_window calls are made.
C14_Witness ==
    /\ windowsOk = 1
    /\ window_created
    /\ pc = "hook"
    /\ hook = "about_to_wait"

\* C15 as the specification words it: window_created flips from false to
\* true only when a create_window call succeeds, so a set latch means that a
\* call has returned Ok.
C15_LatchOnlyOnSuccess == window_created => windowsOk >= 1


\* ---------------------------------------------------------------------------
\* Properties of the DPI-changed handler (specification DpiSpec)
\* ---------------------------------------------------------------------------

\* A step that is one DPI-changed signal.
DpiStep == lastDpi'.signals = lastDpi.signals + 1

\* The scale factor the last DPI-changed signal computed, dpi / 96.
LastNewScale == dpi_to_scale_factor(lastDpi.dpi)

\* C16: when the application writes a size through the surface-size writer
\* of a ScaleFactorChanged event while handling that event, the cached
\* surface_size afterwards (once the hook has returned) equals the size the
\* application wrote.
C16_WriterOverrides ==
    (appWrote.some /\ pc # "hook") => surface_size = appWrote.size

\* C17: a DPI-changed signal whose recomputed scale dpi / 96 equals the cached
\* scale factor, or differs from it by less than f64::EPSILON, enqueues no
\* event and leaves the cached scale factor, the cached surface size and the
\* event queue unchanged.
C17_NoOpBelowEpsilon ==
    [][(DpiStep /\ lastDpi'.resolved
            /\ BelowEpsilon(dpi_to_scale_factor(lastDpi'.dpi), scale_factor))
        => /\ events' = events
           /\ pushed' = pushed
           /\ scale_factor' = scale_factor
           /\ surface_size' = surface_size]_vars

\* A signal arrived whose scale differs from the cached one by less than the
\* tolerance without being equal to it, and nothing changed.
C17_Witness ==
    /\ lastDpi.signals >= 1
    /\ lastDpi.resolved
    /\ lastDpi.old_scale = Tiny(1)
    /\ lastDpi.dpi = Tiny(2)
    /\ lastDpi.emitted = 0
    /\ scale_factor = Tiny(1)
    /\ pushed = <<>>

\* C18: a DPI-changed signal that changes the scale from 1.0 to 1.0000001
\* emits no ScaleFactorChanged event.
C18_NoEventForSmallChange ==
    (/\ lastDpi.signals >= 1
     /\ lastDpi.resolved
     /\ lastDpi.old_scale = One
     /\ LastNewScale = Frac(10000001, 10000000))
        => lastDpi.emitted = 0

\* C19: a DPI-changed signal that changes the scale from old to new sets the
\* cached scale factor to new, enqueues exactly one ScaleFactorChanged event
\* carrying new, and sets the cached surface size to
\* round(old_physical / old * new) in each dimension; from 1.0 to 1.5 a
\* surface of 3 x 1 becomes 5 x 2.
C19_ScaleChange ==
    [][(DpiStep /\ lastDpi'.resolved
            /\ ~BelowEpsilon(dpi_to_scale_factor(lastDpi'.dpi), scale_factor))
        => LET old == scale_factor
               new == dpi_to_scale_factor(lastDpi'.dpi)
           IN /\ scale_factor' = new
              /\ Len(events') = Len(events) + 1
              /\ SubSeq(events', 1, Len(events)) = events
              /\ events'[Len(events')].name = "ScaleFactorChanged"
              /\ events'[Len(events')].scale_factor = new
              /\ surface_size' = Size(rescale(surface_size.w, old, new),
                                      rescale(surface_size.h, old, new))
              /\ (old = One /\ new = Frac(3, 2) /\ surface_size = Size(3, 1))
                    => surface_size' = Size(5, 2)]_vars

\* The scale went from 1.0 to 1.5 with a surface of 3 x 1.
C19_Witness ==
    /\ lastDpi.signals >= 1
    /\ lastDpi.resolved
    /\ lastDpi.old_scale = One
    /\ lastDpi.old_size = Size(3, 1)
    /\ lastDpi.dpi = Frac(144, 1)
    /\ lastDpi.emitted = 1
    /\ scale_factor = Frac(3, 2)
    /\ surface_size = Size(5, 2)


\* ---------------------------------------------------------------------------
\* Properties of the pointer callbacks (specification PointerSpec)
\* ---------------------------------------------------------------------------

\* C20: a pointer callback (moved, pressed, released, entered, exited,
\* wheel) whose current point cannot be resolved, or whose point's
\* properties cannot be read, enqueues no event.
C20_SilentOnAnyFailure ==
    \A i \in 1..Len(ptrLog) :
        (~ptrLog[i].point \/ ~ptrLog[i].props) => ptrLog[i].emitted = 0


\* A step that is one pointer signal, and the signal it recorded.
PtrStep == Len(ptrLog') = Len(ptrLog) + 1
NewPtr == ptrLog'[Len(ptrLog')]

\* C21: a wheel signal with native delta d enqueues exactly one MouseWheel
\* event, with LineDelta (0, d/120) when the horizontal flag is false and
\* (d/120, 0) when it is true: 120 vertical gives (0, 1), -240 horizontal
\* gives (-2, 0).
C21_WheelLines ==
    [][(PtrStep /\ NewPtr.handler = "wheel" /\ NewPtr.point /\ NewPtr.props)
        => LET e == events'[Len(events')]
               line == IF NewPtr.horizontal THEN e.x ELSE e.y
               other == IF NewPtr.horizontal THEN e.y ELSE e.x
           IN /\ Len(events') = Len(events) + 1
              /\ SubSeq(events', 1, Len(events)) = events
              /\ e.name = "MouseWheel"
              /\ line.t = 0 /\ line.d > 0
              /\ line.n * 120 = NewPtr.delta * line.d
              /\ other = Frac(0, 1)
              /\ (NewPtr.delta = 120 /\ ~NewPtr.horizontal)
                    => (e.x = Frac(0, 1) /\ e.y = Frac(1, 1))
              /\ (NewPtr.delta = -240 /\ NewPtr.horizontal)
                    => (e.x = Frac(-2, 1) /\ e.y = Frac(0, 1))]_vars

\* A horizontal wheel signal of -240 queued (-2, 0).
C21_Witness ==
    /\ Len(ptrLog) = 1
    /\ ptrLog[1].handler = "wheel"
    /\ ptrLog[1].delta = -240
    /\ ptrLog[1].horizontal
    /\ Len(events) = 1
    /\ events[1].name = "MouseWheel"
    /\ events[1].x = Frac(-2, 1)
    /\ events[1].y = Frac(0, 1)


\* ---------------------------------------------------------------------------
\* Properties of the application object (specification Spec)
\* ---------------------------------------------------------------------------

\* The loop thread is inside run_loop's loop.
InLoop ==
    pc \in {"iter_start", "hook", "pump", "pumping", "dispatch", "atw",
            "check_exit", "break"}

HookInvoked == hook' # "none" /\ (hook' # hook \/ iterLog' # iterLog)

\* C23: the application is reached only by the loop thread and only while it
\* is stored: every step that invokes a hook is a step of the loop thread
\* inside run_loop, taken with the application stored and unreleased, and
\* moves no other thread; a hook is running only while the application is
\* stored; once the application is released no hook runs again. Native
\* callbacks and wake_up() calls from any thread invoke no hook.
C23_LoopThreadOnly ==
    /\ [](/\ pc = "hook" => (hook \in Hooks /\ app = "stored" /\ released = 0)
          /\ released >= 1 => (pc \in {"done", "exited"} /\ app = "none"))
    /\ [][HookInvoked
            => /\ pc \in {"iter_start", "hook", "dispatch", "atw"}
               /\ pc' = "hook"
               /\ app = "stored" /\ app' = "stored"
               /\ released = 0
               /\ \A c \in Threads : wpc'[c] = wpc[c]]_vars

\* proxy_wake_up runs on the loop thread while another thread is in the
\* middle of its own wake_up() call and a native callback has queued an
\* event.
C23_Witness ==
    /\ pc = "hook"
    /\ hook = "proxy_wake_up"
    /\ app = "stored"
    /\ \E c \in Threads : wpc[c] # "idle"
    /\ \E i \in 1..Len(pushed) : pushed[i].type = "Window"


\* ---------------------------------------------------------------------------
\* Properties of the Runner's mutexes (specification LockSpec)
\* ---------------------------------------------------------------------------

\* The step a frame stands at, and whether the loop thread is inside an
\* operation that the application called from a hook.
InstrOf(f) == Code(f.op)[f.i]
CalledFromHook ==
    /\ Len(frames[Main]) >= 2
    /\ InstrOf(frames[Main][Len(frames[Main]) - 1]).k = "hook"

\* C24: no Runner mutex is held by the loop thread at the moment a hook
\* (new_events, can_create_surfaces, window_event, proxy_wake_up,
\* about_to_wait) is invoked, so an operation the hook calls
\* (set_control_flow, control_flow, exit, create_window, request_redraw,
\* surface_size, wake_up) never waits for a mutex its own thread holds.
C24_NoLockAtHook ==
    /\ At(Main, "hook") => Held(Main) = {}
    /\ (CalledFromHook /\ At(Main, "lock")) => owner[Instr(Main).a] # Main

\* Inside window_event the application calls wake_up, which is about to
\* take the queue's mutex, while another thread holds a Runner mutex.
C24_Witness ==
    /\ CalledFromHook
    /\ InstrOf(frames[Main][Len(frames[Main]) - 1]).a = "window_event"
    /\ Top(Main).op = "wake_up"
    /\ At(Main, "lock")
    /\ Instr(Main).a = "events"
    /\ \E t \in Threads : Held(t) # {}

\* C25: no Runner mutex is held by a thread across a call into native
\* platform code: not while a weak native handle is resolved, not while
\* native events are pumped, not while native handlers are registered.
C25_NoLockAcrossNative ==
    \A t \in Callers : (At(t, "native") \/ At(t, "pump")) => Held(t) = {}


\* ---------------------------------------------------------------------------
\* Properties of the clock (specification TimeSpec)
\* ---------------------------------------------------------------------------

\* The step at the bottom of an iteration that goes on to the next one.
NextIteration == pc = "check_exit" /\ pc' = "iter_start"

\* C26: the start cause passed to new_events in iteration k+1 is determined
\* by control_flow and the clock at the end of iteration k: Poll gives Poll,
\* Wait gives WaitCancelled with no requested resume, WaitUntil(t) gives
\* ResumeTimeReached(t) when now >= t and WaitCancelled(Some(t)) otherwise;
\* new_events receives exactly that cause, and ResumeTimeReached(t) is never
\* reported at a time earlier than t.
C26_StartCause ==
    /\ [](start_cause.kind = "ResumeTimeReached"
            => now >= start_cause.requested_resume)
    /\ [][/\ NextIteration =>
              /\ control_flow.kind = "Poll"
                    => start_cause' = [kind |-> "Poll",
                                       requested_resume |-> NoInstant]
              /\ control_flow.kind = "Wait"
                    => start_cause' = [kind |-> "WaitCancelled",
                                       requested_resume |-> NoInstant]
              /\ (control_flow.kind = "WaitUntil" /\ now >= control_flow.instant)
                    => start_cause' =
                          [kind |-> "ResumeTimeReached",
                           requested_resume |-> control_flow.instant]
              /\ (control_flow.kind = "WaitUntil" /\ now < control_flow.instant)
                    => start_cause' =
                          [kind |-> "WaitCancelled",
                           requested_resume |-> control_flow.instant]
          /\ ~NextIteration => start_cause' = start_cause]_vars

\* new_events is handed ResumeTimeReached(1) at time 1.
C26_Witness ==
    /\ pc = "hook"
    /\ hook = "new_events"
    /\ start_cause.kind = "ResumeTimeReached"
    /\ start_cause.requested_resume = 1
    /\ now = 1

\* C27: in every iteration whose control flow at pump time is WaitUntil(t)
\* the dispatch pass does not begin before instant t: when
\* process_os_events has returned and the queue is about to be swapped out,
\* the clock has reached t.
C27_NoDispatchBeforeDeadline ==
    (pc = "swap" /\ control_flow.kind = "WaitUntil")
        => now >= control_flow.instant


\* ---------------------------------------------------------------------------
\* Properties of the window operations (specification ApiSpec)
\* ---------------------------------------------------------------------------

\* A step that is one call, and the call it recorded.
CallStep == Len(callLog') = Len(callLog) + 1
NewCall == callLog'[Len(callLog')]

\* C28: every operation with no native equivalent (create_custom_cursor,
\* set_cursor_position, set_cursor_grab, drag_window, drag_resize_window,
\* set_cursor_hittest, outer_position, IME update requests) returns a
\* not-supported error on every call, whatever the state of the native
\* handles, without panicking and without changing any Runner or Window
\* state.
C28_UnsupportedIsTypedError ==
    [][(CallStep /\ NewCall.op \in
            {"create_custom_cursor", "set_cursor_position", "set_cursor_grab",
             "drag_window", "drag_resize_window", "set_cursor_hittest",
             "outer_position", "request_ime_update"})
        => /\ NewCall.result = "NotSupported"
           /\ UNCHANGED <<runnerVars, loopVars, envVars, dpiVars, windowsOk>>]_vars

\* set_cursor_grab is refused a second time, with the CoreWindow
\* unresolvable, as it was the first time with it resolvable.
C28_Witness ==
    /\ Len(callLog) = 2
    /\ callLog[1].op = "set_cursor_grab" /\ callLog[1].resolves
    /\ callLog[1].result = "NotSupported"
    /\ callLog[2].op = "set_cursor_grab" /\ ~callLog[2].resolves
    /\ callLog[2].result = "NotSupported"

\* C29: every Window operation tolerates the native window being
\* unresolvable at the time of the call: it skips the native action or
\* returns a neutral default, None or a typed error, and never panics.
C29_ToleratesUnavailable ==
    \A i \in 1..Len(callLog) :
        ~callLog[i].resolves => callLog[i].result # "panic"


\* ---------------------------------------------------------------------------
\* Properties of run_app_never_return
\* ---------------------------------------------------------------------------

\* C30: run_app_never_return never returns to its caller. Once the native
\* run entry point has returned, because the loop has terminated or because
\* the native run call failed, the only step of the calling thread is the
\* exit of the process with status 0, after which nothing runs; and when
\* the loop had run, the application object was released before the exit.
C30_NeverReturns ==
    /\ [](exit_code \in {NoCode, 0})
    /\ [](pc = "exited" <=> exit_code = 0)
    /\ []((pc = "exited" /\ initCalls >= 1) => (released = 1 /\ app = "none"))
    /\ [][(pc = "done" /\ pc' # "done") => (pc' = "exited" /\ exit_code' = 0)]_vars
    /\ [][pc = "exited" => UNCHANGED <<pc, exit_code, released, iterLog>>]_vars

\* The process has exited with status 0 after a loop that ran and released
\* the application object.
C30_Witness ==
    /\ pc = "exited" /\ exit_code = 0
    /\ initCalls = 1 /\ released = 1 /\ app = "none"


\* ---------------------------------------------------------------------------
\* Properties of exit and of the queue under concurrency (specification Spec)
\* ---------------------------------------------------------------------------

\* How often a hook was invoked in the current iteration.
HookCount(h) == Cardinality({i \in 1..Len(iterLog) : iterLog[i] = h})

\* C31: when exit() is called from a hook in the middle of a dispatch pass,
\* every remaining event of the swapped-out batch is still delivered (the
\* only step the loop takes with events left in the batch hands over the
\* next one) and about_to_wait is still invoked once before the loop
\* breaks; when it has broken, exactly the events pushed before that batch
\* was swapped out have been delivered, and those enqueued afterwards never
\* are.
C31_ExitMidPass ==
    /\ [][(exit /\ pc = "dispatch" /\ queue # <<>> /\ pc' # pc)
            => /\ pc' = "hook"
               /\ delivered' = Append(delivered, Head(queue))
               /\ queue' = Tail(queue)]_vars
    /\ []((exitHook \in DispatchHooks
             /\ pc \in {"check_exit", "break", "done", "exited"})
            => /\ HookCount("about_to_wait") = 1
               /\ itersAfterExit = 0
               /\ queue = <<>>
               /\ \A i \in 1..Len(pushed) :
                      pushed[i].id < swapNextId <=> pushed[i].id \in DeliveredIds)
    /\ [][(exitHook \in DispatchHooks /\ pc \in {"break", "done", "exited"})
            => delivered' = delivered]_vars

\* exit() was called in window_event, the first hook of a batch of two; the
\* WakeUp behind it was still delivered, and the loop has ended.
C31_Witness ==
    /\ pc = "done"
    /\ exitHook = "window_event"
    /\ passStart = 0
    /\ Len(delivered) = 2
    /\ delivered[2].type = "WakeUp"


\* The loop thread begins an iteration: it leaves the top of the loop body.
BeginsIteration == pc = "iter_start" /\ pc' # "iter_start"
\* new_events is invoked.
InvokesNewEvents ==
    /\ pc' = "hook" /\ hook' = "new_events"
    /\ ~(pc = "hook" /\ hook = "new_events")

\* C32: no loop iteration begins after exit has been requested from a hook:
\* once exit() has been called from any hook of an iteration (new_events,
\* can_create_surfaces, window_event, proxy_wake_up or about_to_wait), the
\* loop is never again at the top of its body, new_events is not invoked
\* again, and the test that follows that iteration's about_to_wait breaks
\* the loop.
C32_NoIterationAfterExit ==
    /\ [](exitHook \in Hooks => (pc # "iter_start" /\ itersAfterExit = 0))
    /\ [][(exitHook \in Hooks) => (~BeginsIteration /\ ~InvokesNewEvents)]_vars
    /\ [][(exitHook \in Hooks /\ pc = "check_exit" /\ pc' # pc)
            => pc' = "break"]_vars

\* The loop has ended after an exit() made in about_to_wait of an iteration
\* later than the first, without another new_events.
C32_Witness ==
    /\ pc = "done"
    /\ exitHook = "about_to_wait"
    /\ start_cause # StartCauseInit
    /\ iterLog[Len(iterLog)] = "about_to_wait"


\* C33: while the loop is running, a wake_up() call is followed by a
\* proxy_wake_up invocation without the help of an unrelated native event:
\* the loop thread is never blocked in the native pump under Wait, with
\* nothing posted to the dispatcher and no caller still on its way to post,
\* while a WakeUp that a completed wake_up() call queued during the running
\* loop (after the last swap of the queue) waits to be dispatched.
C33_BlockedPumpIsWoken ==
    ~(/\ pc = "pumping"
      /\ control_flow.kind = "Wait"
      /\ ~pumped
      /\ ~posted
      /\ ~exit
      /\ start_cause.kind # "Init"
      /\ \A c \in Callers : wpc[c] = "idle"
      /\ \E i \in 1..Len(events) :
            events[i].type = "WakeUp" /\ events[i].id >= swapNextId)


\* How often the event with push number n occurs in the sequence q.
Occurrences(q, n) == Cardinality({j \in 1..Len(q) : q[j].id = n})

\* C34: under any interleaving of enqueues (native callbacks on the loop
\* thread, wake_up() and request_redraw() from other threads) with the
\* loop's swap-and-drain, every pushed event is at every moment in exactly
\* one place: waiting in the runner's queue, waiting in the swapped-out
\* batch, or delivered, and there once. No event is lost by the swap, none
\* is delivered twice, and when a pass has ended everything pushed before
\* its swap has been delivered.
C34_ExactlyOnce ==
    /\ \A n \in 1..Len(pushed) :
           /\ pushed[n].id = n
           /\ Occurrences(events, n) + Occurrences(queue, n)
                  + Occurrences(delivered, n) = 1
    /\ Len(events) + Len(queue) + Len(delivered) = Len(pushed)
    /\ (pc \in {"atw", "check_exit", "iter_start"} /\ initCalls = 1) =>
           \A n \in 1..Len(pushed) :
               n < swapNextId => Occurrences(delivered, n) = 1

\* Two passes have each delivered one event, the second one an event that
\* was pushed after the swap that took the first; nothing is left anywhere.
C34_Witness ==
    /\ pc = "atw"
    /\ Len(pushed) = 2 /\ Len(delivered) = 2
    /\ passStart = 1
    /\ events = <<>> /\ queue = <<>>


\* ---------------------------------------------------------------------------
\* Properties of the keyboard coalescer under interleaved keys (KeySpec)
\* ---------------------------------------------------------------------------

ScanCodes == {k.sc : k \in Keys}

\* How many signals of kind sig and scan code s are among the first n.
SignalCount(sig, s, n) ==
    Cardinality({i \in 1..n : sigLog[i].sig = sig /\ sigLog[i].sc = s})
\* The positions of the key-up signals and of the release events, in order.
UpSignals ==
    SelectSeq([i \in 1..Len(sigLog) |-> i], LAMBDA i : sigLog[i].sig = "up")
ReleaseEvents ==
    LET keys == EmittedKeys
    IN SelectSeq([j \in 1..Len(keys) |-> j],
                 LAMBDA j : keys[j].state = "Released")

\* C35: for any sequence of key-down, character-received and key-up signals,
\* with the keys interleaved in any way, every key-down has exactly one press
\* event, enqueued once or still buffered (none is enqueued twice, no
\* key-down yields two); every key-up has its one release; and when the
\* release of scan code s is enqueued no press of s is still buffered: the
\* press of every key-down of s that came before that key-up stands before
\* the release in the queue.
C35_PressOnceBeforeRelease ==
    LET keys == EmittedKeys
        ups == UpSignals
        rels == ReleaseEvents
        presses(s, n) ==
            Cardinality({i \in 1..n : keys[i].sc = s /\ keys[i].state = "Pressed"})
    IN /\ \A s \in ScanCodes :
              presses(s, Len(keys))
                  + (IF pending_keydown.some /\ pending_keydown.scancode = s
                     THEN 1 ELSE 0)
                = SignalCount("down", s, Len(sigLog))
       /\ Len(rels) = Len(ups)
       /\ \A k \in 1..Len(rels) :
              /\ keys[rels[k]].sc = sigLog[ups[k]].sc
              /\ presses(sigLog[ups[k]].sc, rels[k] - 1)
                    = SignalCount("down", sigLog[ups[k]].sc, ups[k] - 1)

\* Key-down of 30, key-down of 48, key-up of 30: the press of 30 was flushed
\* by the second key-down and stands before its release; the press of 48 is
\* still buffered.
C35_Witness ==
    /\ Len(sigLog) = 3
    /\ sigLog[1].sig = "down" /\ sigLog[1].sc = 30
    /\ sigLog[2].sig = "down" /\ sigLog[2].sc = 48
    /\ sigLog[3].sig = "up" /\ sigLog[3].sc = 30
    /\ EmittedKeys = <<[sc |-> 30, state |-> "Pressed"],
                       [sc |-> 30, state |-> "Released"]>>
    /\ pending_keydown.some /\ pending_keydown.scancode = 48


\* C36: for any interleaving of signals from several keys, whenever a press
\* event is emitted with text taken from a character-received signal, that
\* character was produced by the same key press, the key-down that buffered
\* the event: a character that belongs to the press of one key is never
\* merged into the buffered press of a different key.
C36_CharacterOfSameKey ==
    \A i \in 1..Len(sigLog) :
        (sigLog[i].sig = "char" /\ sigLog[i].merged # 0 /\ sigLog[i].press # 0)
            => sigLog[sigLog[i].merged].sc = sigLog[sigLog[i].press].sc


\* ------------------------------------------------------------------
\* Properties of the key-down handler under every modifier state
\* (specification ModSpec).

\* The key of the model's keyboard with scan code s.
KeyOfScan(s) == CHOOSE k \in ModKeys : k.sc = s
\* The modifiers the key-down handler of this step read off the window: the
\* ModifiersChanged event it enqueues first.
StepMods == StepEvents[1].mods
\* The number of presses flushed out of the buffer by this step.
StepFlushed == IF pending_keydown.some THEN 1 ELSE 0

\* C37: a key-down is buffered, its press not enqueued by that signal, if and
\* only if its mapped logical key is a Character key and none of control, alt
\* or meta is held; in every other case its press is enqueued during the
\* handling of that same signal and the buffer is empty afterwards.
C37_BufferedIffPlainCharacter ==
    [][DownStep =>
         LET k == KeyOfScan(LastSignal'.sc)
             plain == /\ map_key(k.vk, StepMods).key.kind = "Character"
                      /\ "CONTROL" \notin StepMods
                      /\ "ALT" \notin StepMods
                      /\ "META" \notin StepMods
             press == KeyEvent(k, StepMods, "Pressed", FALSE)
         IN IF plain
            THEN /\ pending_keydown' = PendingKeyDown(k.sc, press)
                 /\ Len(StepKeys) = StepFlushed
                 /\ \A i \in 1..Len(StepKeys) :
                        StepKeys[i].event = pending_keydown.event
            ELSE /\ pending_keydown' = NoPending
                 /\ Len(StepKeys) = StepFlushed + 1
                 /\ StepKeys[Len(StepKeys)].event = press]_vars

\* A plain "a" is buffered, then alt+"a" arrives: the first press is flushed,
\* the second enqueued at once, and nothing is buffered.
C37_Witness ==
    /\ Len(sigLog) = 2
    /\ \A i \in 1..2 : sigLog[i].sig = "down" /\ sigLog[i].sc = 30
    /\ Len(KeyInputs) = 2
    /\ Len(pushed) = 4
    /\ pushed[1] = ModifiersChanged({}, 1)
    /\ pushed[2] = ModifiersChanged({"ALT"}, 2)
    /\ ~pending_keydown.some


\* ------------------------------------------------------------------
\* Properties of the focus flag (specification FocusSpec).

FocusedEvents == SelectSeq(pushed, LAMBDA e : e.name = "Focused")
ActivatedStep == Len(sigLog') = Len(sigLog) + 1

\* C38: after any sequence of activation signals has_focus() is the boolean
\* of the most recently enqueued Focused event, which is true unless the
\* activation state was Deactivated; it is false before any activation
\* signal.
C38_FocusIsLastFocused ==
    /\ [](has_focus = IF FocusedEvents = <<>> THEN FALSE
                      ELSE FocusedEvents[Len(FocusedEvents)].focused)
    /\ [](sigLog = <<>> => ~has_focus)
    /\ [][(ActivatedStep /\ LastSignal'.code \in ActivationStates) =>
             StepEvents =
                 <<Focused(LastSignal'.code # "Deactivated", nextId)>>]_vars

\* Activated by code, deactivated, then activated by the pointer: three
\* Focused events, the last one true, and the window has focus.
C38_Witness ==
    /\ Len(sigLog) = 3
    /\ sigLog[1].code = "CodeActivated"
    /\ sigLog[2].code = "Deactivated"
    /\ sigLog[3].code = "PointerActivated"
    /\ Len(FocusedEvents) = 3
    /\ ~FocusedEvents[2].focused
    /\ has_focus


\* ------------------------------------------------------------------
\* Properties of the window's cursor (specification CursorSpec).

\* The set_cursor calls with an icon, the set_cursor_visible calls, and the
\* last of a set of calls.
IconCalls ==
    {i \in 1..Len(callLog) :
        callLog[i].op = "set_cursor" /\ callLog[i].cursor.kind = "Icon"}
VisibleCalls == {i \in 1..Len(callLog) : callLog[i].op = "set_cursor_visible"}
LastOf(calls) == CHOOSE i \in calls : \A j \in calls : j <= i
LastVisible ==
    IF VisibleCalls = {} THEN TRUE ELSE callLog[LastOf(VisibleCalls)].visible
LastIcon ==
    IF IconCalls = {} THEN "Arrow"
    ELSE cursor_icon_to_core(callLog[LastOf(IconCalls)].cursor.icon)
NativeCallsSucceed == \A i \in 1..Len(callLog) : callLog[i].ok

\* C39: after any sequence of set_cursor(Icon) and set_cursor_visible calls
\* whose native calls succeed, the native pointer cursor is hidden if the
\* last visibility set was false and otherwise is the cursor of the most
\* recent set_cursor icon, Arrow if none; an icon set while hidden is
\* remembered, and set_cursor while hidden does not show the cursor.
C39_CursorFollowsCalls ==
    /\ [](NativeCallsSucceed =>
             pointer_cursor = IF LastVisible THEN LastIcon ELSE "None")
    /\ [](cursor_icon = LastIcon /\ cursor_visible = LastVisible)
    /\ [][(CallStep /\ NewCall.op = "set_cursor" /\ ~cursor_visible) =>
             pointer_cursor' = pointer_cursor]_vars

\* Hidden, then the Text icon set, then shown again: the I-beam appears.
C39_Witness ==
    /\ Len(callLog) = 3
    /\ NativeCallsSucceed
    /\ callLog[1].op = "set_cursor_visible" /\ ~callLog[1].visible
    /\ callLog[2].op = "set_cursor" /\ callLog[2].cursor.icon = "Text"
    /\ callLog[3].op = "set_cursor_visible" /\ callLog[3].visible
    /\ pointer_cursor = "IBeam"


\* ------------------------------------------------------------------
\* Properties of the scancode conversions (specification ScanSpec).

\* The scancode went to a physical key and that key back to a scancode.
RoundTrip ==
    /\ Len(callLog) = 2
    /\ callLog[1].op = "scancode_to_physicalkey"
    /\ callLog[2].op = "physicalkey_to_scancode"
\* A physical key that is an unidentified Windows native key code.
IsWindowsNative(k) == k.kind = "Unidentified" /\ k.native = "Windows"

\* C40: physicalkey_to_scancode(scancode_to_physicalkey(s)) is Some(s) for
\* every scancode s below 2^16 and Some(s mod 2^16) for larger 32-bit
\* values; physicalkey_to_scancode is None for every physical key that is
\* not an unidentified Windows native key code.
C40_ScancodeRoundTrip ==
    /\ RoundTrip =>
          /\ callLog[2].arg = callLog[1].result
          /\ callLog[1].arg = scancode
          /\ scancode < U16 => scan_result = SomeCode(scancode)
          /\ scancode >= U16 => scan_result = SomeCode(scancode % U16)
    /\ \A i \in 1..Len(callLog) :
          (/\ callLog[i].op = "physicalkey_to_scancode"
           /\ ~IsWindowsNative(callLog[i].arg)) =>
              callLog[i].result = NoneCode

\* The scancode 2 * 2^16 + 15 has come back as 15.
C40_Witness ==
    /\ RoundTrip
    /\ scancode = 2 * U16 + 15
    /\ scan_result = SomeCode(15)

====
